---- MODULE Spec2Model ----
(***************************************************************************)
(* A state-machine model of the prediction orchestrator of the fake-news   *)
(* detection system: the three quota-tracked remote adapters               *)
(* (core/hf_client.py, core/gemini_client.py, core/groq_client.py), the    *)
(* ensemble orchestrator with its fallback chain and aggregator            *)
(* (core/ensemble.py) and the content-addressed cache (core/cache.py).     *)
(*                                                                         *)
(* Numbers: a probability, a confidence or a threshold x in [0,1] is the   *)
(* integer x * Unit (four decimals, the precision the adapters round to).  *)
(* A weighted mean is kept as an exact fraction [n, d] of such integers;   *)
(* where the rounding of the Python floats decides the outcome the         *)
(* aggregator is computed in binary64 arithmetic (AggregateResultsFloat).  *)
(***************************************************************************)
EXTENDS Integers, Sequences, FiniteSets, TLC

VARIABLES
    \* ---- configuration (core/config.py), fixed after construction
    api_key,          \* backend -> "" | "placeholder" | "key"
    hf_lib,           \* HF_AVAILABLE: the huggingface_hub import succeeded
    thresholds,       \* [fake_threshold, real_threshold, min_confidence]
    ensemble_weights, \* Config.ensemble_weights: category -> weight, in hundredths
    \* ---- wall clock
    today,            \* date.today()
    \* ---- the three adapters' QuotaState and health counters
    usage_today,      \* backend -> calls counted today
    last_reset_date,  \* backend -> date of the last reset
    success_count,    \* backend -> successful predict calls
    error_count,      \* backend -> predict calls that raised into an except
    \* ---- the network
    netCalls,         \* request -> backend -> network attempts it started (history)
    succToday,        \* backend -> predict calls begun and succeeded today (history)
    \* ---- the orchestration calls (coroutines) in progress
    started,          \* number of predict requests started so far
    pc,               \* request -> position in predict/_run_models_parallel
    results,          \* request -> model_results list
    attempt,          \* request -> tenacity attempt number of the LLM call in flight
    callDay,          \* request -> day the adapter predict in progress began
    outcome,          \* request -> backend -> how its branch ended (history)
    ret,              \* request -> what predict returned (or raised)
    \* ---- the verdict decision on its own
    vIn,              \* [p, c] handed to _determine_verdict
    vOut,             \* the verdict it returned, or "none"
    \* ---- the aggregator on its own
    aggIn,            \* the model_results list handed to _aggregate_results
    aggOut,           \* what it returned
    \* ---- the adapters' and the orchestrator's status operations called directly
    call,             \* the latest such call and what it returned (history)
    \* ---- the analyze handler of app.py
    app,              \* [pc, text, n, result]: its position, its text, requests so far
    \* ---- the heuristic engine (core/heuristic.py) called on its own
    heur,             \* the latest two analyze calls: texts, results (history)
    \* ---- threads calling the cache
    lock,             \* self._lock: the thread that holds it, or "free"
    thread,           \* thread -> [pc, op, text]: its position in a cache operation
    \* ---- the cache (core/cache.py)
    cache,            \* self.cache: digest -> entry
    file,             \* the mapping in cache_file
    hits,             \* self.hits
    misses,           \* self.misses
    now,              \* datetime.now(), in hours
    sweepKeys,        \* the digests d with hash(d) % 100 == 0 in this process
    opCount,          \* cache operations called so far
    lastOp            \* the latest cache operation and what it returned (history)

vars == <<api_key, hf_lib, thresholds, ensemble_weights, today, usage_today, last_reset_date,
          success_count, error_count, netCalls, succToday, started, pc,
          results, attempt, callDay, outcome, ret, vIn, vOut, aggIn, aggOut, call, app, heur,
          lock, thread,
          cache, file, hits, misses, now, sweepKeys, opCount, lastOp>>

configVars  == <<api_key, hf_lib, thresholds, ensemble_weights>>
adapterVars == <<usage_today, last_reset_date, success_count, error_count>>
requestVars == <<started, pc, results, attempt, callDay, outcome, ret>>
directVars  == <<vIn, vOut, aggIn, aggOut, call, app, heur, lock, thread>>
clockVars   == <<today>>
netVars     == <<netCalls, succToday>>
cacheVars   == <<cache, file, hits, misses, now, sweepKeys, opCount, lastOp>>

(***************************************************************************)
(* Bounds and program constants                                            *)
(***************************************************************************)
Unit        == 10000   \* round(x, 4)
DailyQuota  == 1       \* daily_quota of every adapter in the model
MaxDay      == 1       \* the clock runs over days 0..MaxDay
MaxRequests == 2       \* predict requests started in one behaviour
MaxAttempts == 2       \* stop_after_attempt(2)
TtlHours    == 1       \* ttl_hours of the cache in the model
MaxHour     == 2       \* the cache clock runs over hours 0..MaxHour
MaxOps      == 3       \* cache operations called in one behaviour
MaxResults  == 2       \* longest model_results list handed to the aggregator
MaxCalls    == 3       \* adapter and status operations called in one behaviour

Backends  == {"huggingface", "gemini", "groq"}
Requests  == {"r1", "r2"}
Verdicts  == {"FAKE", "REAL", "UNCERTAIN"}

(***************************************************************************)
(* Exact fractions                                                         *)
(***************************************************************************)
Frac(n, d)   == [n |-> n, d |-> d]
OfUnits(x)   == Frac(x, 1)
FracLt(a, b) == a.n * b.d < b.n * a.d
FracGe(a, b) == a.n * b.d >= b.n * a.d
FracLe(a, b) == a.n * b.d <= b.n * a.d

(***************************************************************************)
(* core/ensemble.py: the verdict decision                                  *)
(***************************************************************************)
DetermineVerdictRealFirst(fake_probability, confidence, cfg) ==
    IF FracLt(confidence, OfUnits(cfg.min_confidence)) THEN "UNCERTAIN"
    ELSE IF FracLe(fake_probability, OfUnits(cfg.real_threshold)) THEN "REAL"
    ELSE IF FracGe(fake_probability, OfUnits(cfg.fake_threshold)) THEN "FAKE"
    ELSE "UNCERTAIN"

\* EnsemblePredictor._determine_verdict, with self.config as cfg
DetermineVerdict(fake_probability, confidence, cfg) ==
    IF FracLt(confidence, OfUnits(cfg.min_confidence)) THEN "UNCERTAIN"
    ELSE IF FracGe(fake_probability, OfUnits(cfg.fake_threshold)) THEN "FAKE"
    ELSE IF FracLe(fake_probability, OfUnits(cfg.real_threshold)) THEN "REAL"
    ELSE "UNCERTAIN"

\* the values the decision is exercised on: both sides of every threshold
ProbGrid == {0, 2999, 3000, 3001, 5000, 5999, 6000, 6001, 6999, 7000, 7001, 10000}

\* threshold triples a configuration can hold (Config.from_secrets reads any
\* three floats): the defaults, and triples with the band collapsed or inverted
ThresholdChoices ==
    { [fake_threshold |-> 7000, real_threshold |-> 3000, min_confidence |-> 6000],
      [fake_threshold |-> 6000, real_threshold |-> 6000, min_confidence |-> 3000],
      [fake_threshold |-> 3000, real_threshold |-> 7000, min_confidence |-> 6000],
      [fake_threshold |-> 7000, real_threshold |-> 3000, min_confidence |-> 0],
      [fake_threshold |-> 10000, real_threshold |-> 0, min_confidence |-> 10000] }

DefaultThresholds ==
    [fake_threshold |-> 7000, real_threshold |-> 3000, min_confidence |-> 6000]

(***************************************************************************)
(* The state after construction                                            *)
(***************************************************************************)
NoReturn ==
    [status |-> "none", prediction |-> "", fake_probability |-> 0,
     confidence |-> 0, models_used |-> <<>>, explanation |-> ""]

\* Config.ensemble_weights as the dataclass builds it, in hundredths
EnsembleWeights ==
    [k \in {"huggingface", "llm", "heuristic"} |->
        CASE k = "huggingface" -> 40 [] k = "llm" -> 35 [] k = "heuristic" -> 25]

InitClock == today = 0

\* GeminiClient.__init__ / GroqClient.__init__ / HuggingFaceClient.__init__
InitAdapters ==
    /\ usage_today = [b \in Backends |-> 0]
    /\ last_reset_date = [b \in Backends |-> 0]
    /\ success_count = [b \in Backends |-> 0]
    /\ error_count = [b \in Backends |-> 0]
    /\ netCalls = [r \in Requests |-> [b \in Backends |-> 0]]
    /\ succToday = [b \in Backends |-> 0]

InitRequests ==
    /\ started = 0
    /\ pc = [r \in Requests |-> "idle"]
    /\ results = [r \in Requests |-> <<>>]
    /\ attempt = [r \in Requests |-> 0]
    /\ callDay = [r \in Requests |-> 0]
    /\ outcome = [r \in Requests |-> [b \in Backends |-> "none"]]
    /\ ret = [r \in Requests |-> NoReturn]

\* no status operation called yet
NoCall ==
    [n |-> 0, op |-> "none", backend |-> "", used_at_check |-> 0, result |-> "",
     status |-> [b \in Backends |-> ""], overall_status |-> "", heuristic |-> "",
     attempts |-> 0, response |-> "", payload |-> <<>>,
     out |-> [fake_probability |-> 0, confidence |-> 0]]

\* the page before the first click on "Analyze Article"
NoRequest ==
    [pc |-> "idle", text |-> <<>>, n |-> 0, result |-> [prediction |-> "", cached |-> FALSE]]

\* what analyze returns when it has not been called
NoHeuristicResult ==
    [model_name |-> "", fake_probability |-> 0, confidence |-> 0, processing_time |-> 0,
     indicators |-> [emotional_language |-> 0, clickbait_patterns |-> 0,
                     excessive_punctuation |-> 0, caps_ratio |-> 0],
     indicator_details |-> <<>>]

\* no analyze call made yet; seed stands for the process's string hash seed
NoAnalysis ==
    [n |-> 0, seed |-> 0, text |-> <<>>, out |-> NoHeuristicResult,
     prev_text |-> <<>>, prev_out |-> NoHeuristicResult]

\* the threads of the process that call the cache, none inside a call
Threads == {"t1", "t2"}

NoThreadCall == [pc |-> "idle", op |-> "none", text |-> <<>>]

InitVerdictVars ==
    /\ vIn = [p |-> 0, c |-> 0]
    /\ vOut = "none"
    /\ aggIn = <<>>
    /\ aggOut = NoReturn
    /\ call = NoCall
    /\ app = NoRequest
    /\ heur = NoAnalysis
    /\ lock = "free"
    /\ thread = [t \in Threads |-> NoThreadCall]

NoValue == [prediction |-> "", cached |-> FALSE]

NoOp == [op |-> "none", text |-> <<>>, value |-> NoValue, found |-> "", ret |-> NoValue,
         time |-> 0, cleared |-> FALSE, gets |-> 0]

\* CacheManager.__init__ on a cache file that does not exist yet; the cache
\* is idle in the specifications of the orchestrator
InitCacheVars ==
    /\ cache = <<>>
    /\ file = <<>>
    /\ hits = 0
    /\ misses = 0
    /\ now = 0
    /\ sweepKeys = {}
    /\ opCount = 0
    /\ lastOp = NoOp

InitVerdict ==
    /\ api_key = [b \in Backends |-> ""]
    /\ hf_lib = TRUE
    /\ thresholds \in ThresholdChoices
    /\ ensemble_weights = EnsembleWeights
    /\ InitClock
    /\ InitAdapters
    /\ InitRequests
    /\ InitVerdictVars
    /\ InitCacheVars

\* a caller hands a (fake_probability, confidence) pair to the decision
VerdictCall ==
    /\ \E p \in ProbGrid, c \in ProbGrid :
          /\ vIn' = [p |-> p, c |-> c]
          /\ vOut' = DetermineVerdict(OfUnits(p), OfUnits(c), thresholds)
    /\ UNCHANGED <<aggIn, aggOut, call, app, heur, lock, thread>>
    /\ UNCHANGED <<configVars, clockVars, adapterVars, netVars, requestVars, cacheVars>>

NextVerdict == VerdictCall

SpecVerdict == InitVerdict /\ [][NextVerdict]_vars

\* C10: the verdict follows the decision order: confidence below min_confidence
\* gives UNCERTAIN whatever the probability; otherwise probability >= fake_threshold
\* gives FAKE; otherwise probability <= real_threshold gives REAL; otherwise UNCERTAIN.
C10_VerdictOrder ==
    vOut # "none" =>
        /\ vIn.c < thresholds.min_confidence => vOut = "UNCERTAIN"
        /\ (vIn.c >= thresholds.min_confidence /\ vIn.p >= thresholds.fake_threshold)
              => vOut = "FAKE"
        /\ (vIn.c >= thresholds.min_confidence /\ vIn.p < thresholds.fake_threshold
              /\ vIn.p <= thresholds.real_threshold) => vOut = "REAL"
        /\ (vIn.c >= thresholds.min_confidence /\ vIn.p < thresholds.fake_threshold
              /\ vIn.p > thresholds.real_threshold) => vOut = "UNCERTAIN"

\* a pair at or above both thresholds of an inverted band, decided FAKE
C10_Witness ==
    /\ vOut # "none"
    /\ thresholds.real_threshold > thresholds.fake_threshold
    /\ vIn.c >= thresholds.min_confidence
    /\ vIn.p >= thresholds.fake_threshold
    /\ vIn.p <= thresholds.real_threshold
    /\ vOut = "FAKE"

(***************************************************************************)
(* core/config.py: which backends are configured                           *)
(***************************************************************************)
KeyChoices == {"", "placeholder", "key"}

\* Config.has_hf_key / has_gemini_key / has_groq_key
HasKey(b) == api_key[b] # "" /\ api_key[b] # "placeholder"

(***************************************************************************)
(* The remote adapters: quota bookkeeping                                  *)
(***************************************************************************)
UsageNeverReset(b) == usage_today[b]

\* _check_quota_reset: the counter and the reset date it leaves behind
UsageAfterReset(b) == IF today > last_reset_date[b] THEN 0 ELSE usage_today[b]
DateAfterReset(b)  == IF today > last_reset_date[b] THEN today ELSE last_reset_date[b]

\* the early return of is_available: no credential (and, for the sentiment
\* adapter, no client library or no client object)
HasClient(b) ==
    IF b = "huggingface" THEN api_key[b] # "" /\ hf_lib ELSE api_key[b] # ""

\* is_available(): its return value
IsAvailable(b) == HasClient(b) /\ UsageAfterReset(b) < DailyQuota

\* is_available(): its effect on the quota state (the reset runs only past
\* the early return)
AvailUsage(b) == IF HasClient(b) THEN UsageAfterReset(b) ELSE usage_today[b]
AvailDate(b)  == IF HasClient(b) THEN DateAfterReset(b) ELSE last_reset_date[b]

QuotaExceededOffByOne(b) == UsageAfterReset(b) > DailyQuota

\* _check_quota(): whether it raises QuotaExceededError
QuotaExceeded(b) == UsageAfterReset(b) >= DailyQuota

(***************************************************************************)
(* The remote adapters: response parsing                                   *)
(***************************************************************************)
Min(a, b) == IF a < b THEN a ELSE b
Max(a, b) == IF a > b THEN a ELSE b
Clamp01(x) == Max(0, Min(Unit, x))

\* n / d rounded to the nearest integer (halves up; n >= 0, d > 0)
RoundDiv(n, d) == (2 * n + d) \div (2 * d)

\* a field of the JSON object an LLM answers with: a number in
\* ten-thousandths, NaN, a string that is no number, or no such field
Field(kind, value) == [kind |-> kind, value |-> value]

NoField == Field("missing", 0)

\* what the answer of an LLM provider can be once the transport has decoded
\* it: no candidates / choices, no parts, an empty text, a text without a JSON
\* object, a text whose braces hold no JSON, JSON that is no object, a JSON
\* object, a JSON object inside other text
LlmForms ==
    {"no_candidates", "no_parts", "empty_text", "not_json", "braces_not_json",
     "json_not_object", "json", "json_in_text"}

LlmPayload(form, fake_probability, confidence) ==
    [form |-> form, fake_probability |-> fake_probability, confidence |-> confidence]

\* provider payloads of the two LLM backends in an orchestration: a
\* well-formed JSON answer with its two numbers, or one _parse_response
\* cannot read
LlmPayloads ==
    { LlmPayload("not_json", NoField, NoField),
      LlmPayload("json", Field("number", 12000), Field("number", 9000)) }

LlmDefaultResult == [fake_probability |-> 5000, confidence |-> 5000]

\* round(max(0.0, min(1.0, float(result.get(name, 0.5)))), 4); min(1.0, nan)
\* is 1.0
LlmNumber(field) ==
    CASE field.kind = "missing" -> 5000
      [] field.kind = "nan"     -> Unit
      [] OTHER                  -> Clamp01(field.value)

\* GeminiClient._parse_response / GroqClient._parse_response: float() of a
\* string that is no number raises inside the try
LlmParseResponse(payload) ==
    IF payload.form \notin {"json", "json_in_text"} THEN LlmDefaultResult
    ELSE IF "text" \in {payload.fake_probability.kind, payload.confidence.kind}
    THEN LlmDefaultResult
    ELSE [fake_probability |-> LlmNumber(payload.fake_probability),
          confidence |-> LlmNumber(payload.confidence)]

\* class scores of the sentiment model, or an answer _parse_response cannot
\* iterate or add up
HfPayload(form, negative, neutral, positive) ==
    [form |-> form, negative |-> negative, neutral |-> neutral, positive |-> positive]

\* class scores of the sentiment model in an orchestration
HfPayloads ==
    { HfPayload("scores", 9000, 500, 500) }

\* HuggingFaceClient._parse_response
HfParseResponse(payload) ==
    IF payload.form # "scores" THEN [fake_probability |-> 5000, confidence |-> 5000]
    ELSE [fake_probability |->
              Clamp01(RoundDiv(payload.negative * 85 + payload.positive * 40
                                 + payload.neutral * 15, 100)),
          confidence |-> Max(payload.negative, Max(payload.neutral, payload.positive))]

ParseResponse(b, payload) ==
    IF b = "huggingface" THEN HfParseResponse(payload) ELSE LlmParseResponse(payload)

Payloads(b) == IF b = "huggingface" THEN HfPayloads ELSE LlmPayloads

\* outputs of HeuristicAnalyzer.analyze on the request texts of the model
HeuristicOutputs ==
    { [fake_probability |-> 1000, confidence |-> 7000] }

ModelResult(name, parsed) ==
    [model_name |-> name, fake_probability |-> parsed.fake_probability,
     confidence |-> parsed.confidence]

(***************************************************************************)
(* core/ensemble.py: the aggregator                                        *)
(***************************************************************************)
\* weight_mapping.get(model_name, model_name)
WeightKey(model_name) ==
    CASE model_name = "gemini" -> "llm"
      [] model_name = "groq"   -> "llm"
      [] OTHER                 -> model_name

\* self.config.ensemble_weights.get(weight_key, 0.1)
WeightOf(model_name) ==
    IF WeightKey(model_name) \in DOMAIN ensemble_weights
    THEN ensemble_weights[WeightKey(model_name)]
    ELSE 10

RECURSIVE WeightedProb(_)
WeightedProb(rs) ==
    IF rs = <<>> THEN 0
    ELSE Head(rs).fake_probability * WeightOf(Head(rs).model_name) + WeightedProb(Tail(rs))

RECURSIVE WeightedConf(_)
WeightedConf(rs) ==
    IF rs = <<>> THEN 0
    ELSE Head(rs).confidence * WeightOf(Head(rs).model_name) + WeightedConf(Tail(rs))

TotalWeightAssumedOne(rs) == 100

RECURSIVE TotalWeight(_)
TotalWeight(rs) ==
    IF rs = <<>> THEN 0 ELSE WeightOf(Head(rs).model_name) + TotalWeight(Tail(rs))

ModelsUsed(rs) == [i \in 1..Len(rs) |-> rs[i].model_name]

\* EnsemblePredictor._create_fallback_result
CreateFallbackResult ==
    [status |-> "returned", prediction |-> "UNCERTAIN", fake_probability |-> 5000,
     confidence |-> 0, models_used |-> <<>>,
     explanation |-> "Unable to analyze: all models failed. Please try again."]

AggregateResultsNoFallback(model_results, cfg) ==
    LET tw == TotalWeight(model_results)
        fp == IF tw > 0 THEN Frac(WeightedProb(model_results), tw) ELSE OfUnits(5000)
        cf == IF tw > 0 THEN Frac(WeightedConf(model_results), tw) ELSE OfUnits(5000)
    IN  [status |-> "returned",
         prediction |-> DetermineVerdict(fp, cf, cfg),
         fake_probability |-> RoundDiv(fp.n, fp.d),
         confidence |-> RoundDiv(cf.n, cf.d),
         models_used |-> ModelsUsed(model_results),
         explanation |-> "generated"]

\* EnsemblePredictor._aggregate_results
AggregateResults(model_results, cfg) ==
    IF model_results = <<>> THEN CreateFallbackResult
    ELSE LET tw == TotalWeight(model_results)
             fp == IF tw > 0 THEN Frac(WeightedProb(model_results), tw) ELSE OfUnits(5000)
             cf == IF tw > 0 THEN Frac(WeightedConf(model_results), tw) ELSE OfUnits(5000)
         IN  [status |-> "returned",
              prediction |-> DetermineVerdict(fp, cf, cfg),
              fake_probability |-> RoundDiv(fp.n, fp.d),
              confidence |-> RoundDiv(cf.n, cf.d),
              models_used |-> ModelsUsed(model_results),
              explanation |-> "generated"]

Raised ==
    [status |-> "raised", prediction |-> "", fake_probability |-> 0,
     confidence |-> 0, models_used |-> <<>>, explanation |-> ""]

(***************************************************************************)
(* core/ensemble.py: the aggregator called on its own                      *)
(***************************************************************************)
\* weight tables a configuration can hold (Config.from_secrets accepts any
\* mapping whose values sum to 1 within a hundredth): the defaults, one with
\* categories switched off, one without the llm category, one with a negative
\* weight
WeightChoices ==
    { EnsembleWeights,
      [k \in {"huggingface", "llm", "heuristic"} |->
          IF k = "huggingface" THEN 100 ELSE 0],
      [k \in {"huggingface", "heuristic"} |-> 50],
      [k \in {"huggingface", "llm", "heuristic"} |->
          CASE k = "huggingface" -> 0 [] k = "llm" -> -50 [] k = "heuristic" -> 150] }

\* backend identifiers of a result: the four the orchestrator produces, and
\* one that weight_mapping does not know
ModelNames == {"heuristic", "huggingface", "gemini", "groq", "unknown"}

\* 0.2199 beside 1.0 puts a weighted mean within half a unit of a threshold
AggProbs == {0, 2199, 3333, 10000}
AggConfs == {0, 6000, 10000}

AggResults ==
    { [model_name |-> m, fake_probability |-> p, confidence |-> c] :
        m \in ModelNames, p \in AggProbs, c \in AggConfs }

RECURSIVE ListsUpTo(_)
ListsUpTo(n) ==
    IF n = 0 THEN {<<>>}
    ELSE LET shorter == ListsUpTo(n - 1)
         IN  shorter \cup {Append(l, r) : l \in {x \in shorter : Len(x) = n - 1},
                                         r \in AggResults}

ResultLists == ListsUpTo(MaxResults)

InitAggregate ==
    /\ api_key = [b \in Backends |-> ""]
    /\ hf_lib = TRUE
    /\ thresholds = DefaultThresholds
    /\ ensemble_weights \in WeightChoices
    /\ InitClock
    /\ InitAdapters
    /\ InitRequests
    /\ InitVerdictVars
    /\ InitCacheVars

\* a caller hands a model_results list to _aggregate_results
AggregateCall ==
    /\ aggOut.status = "none"
    /\ \E model_results \in ResultLists :
          /\ aggIn' = model_results
          /\ aggOut' = AggregateResults(model_results, thresholds)
    /\ UNCHANGED <<vIn, vOut, call, app, heur, lock, thread>>
    /\ UNCHANGED <<configVars, clockVars, adapterVars, netVars, requestVars, cacheVars>>

NextAggregate == AggregateCall

SpecAggregate == InitAggregate /\ [][NextAggregate]_vars

\* C11: aggregating the empty list returns the fixed fallback verdict:
\* UNCERTAIN, fake_probability 0.5, confidence 0.0, no models used, and the
\* explanation that all models failed.
C11_EmptyGivesFallback ==
    (aggOut.status = "returned" /\ aggIn = <<>>)
    => /\ aggOut.prediction = "UNCERTAIN"
       /\ aggOut.fake_probability = 5000
       /\ aggOut.confidence = 0
       /\ aggOut.models_used = <<>>
       /\ aggOut.explanation = "Unable to analyze: all models failed. Please try again."

\* the aggregator has returned for the empty list
C11_Witness ==
    /\ aggOut.status = "returned"
    /\ aggIn = <<>>
    /\ aggOut.prediction = "UNCERTAIN"

RECURSIVE SeqMin(_, _)
SeqMin(rs, field) ==
    IF Len(rs) = 1 THEN rs[1][field]
    ELSE Min(rs[1][field], SeqMin(Tail(rs), field))

RECURSIVE SeqMax(_, _)
SeqMax(rs, field) ==
    IF Len(rs) = 1 THEN rs[1][field]
    ELSE Max(rs[1][field], SeqMax(Tail(rs), field))

\* C13: for a non-empty list of results with values in [0,1], the aggregated
\* fake_probability and confidence lie in [0,1] and between the least and
\* the greatest of the contributing values.
C13_MeanWithinRange ==
    (aggOut.status = "returned" /\ aggIn # <<>>)
    => /\ aggOut.fake_probability \in 0..Unit
       /\ aggOut.confidence \in 0..Unit
       /\ aggOut.fake_probability >= SeqMin(aggIn, "fake_probability")
       /\ aggOut.fake_probability <= SeqMax(aggIn, "fake_probability")
       /\ aggOut.confidence >= SeqMin(aggIn, "confidence")
       /\ aggOut.confidence <= SeqMax(aggIn, "confidence")

\* C31: the fields of a verdict returned for a non-empty list agree with the
\* decision rule: reported confidence >= min_confidence and reported
\* fake_probability >= fake_threshold give FAKE, reported confidence >=
\* min_confidence and reported fake_probability <= real_threshold give REAL,
\* reported confidence < min_confidence gives UNCERTAIN.
C31_ReportedAgreesWithRule ==
    (aggOut.status = "returned" /\ aggIn # <<>>)
    => /\ (/\ aggOut.confidence >= thresholds.min_confidence
           /\ aggOut.fake_probability >= thresholds.fake_threshold)
          => aggOut.prediction = "FAKE"
       /\ (/\ aggOut.confidence >= thresholds.min_confidence
           /\ aggOut.fake_probability <= thresholds.real_threshold)
          => aggOut.prediction = "REAL"
       /\ aggOut.confidence < thresholds.min_confidence
          => aggOut.prediction = "UNCERTAIN"

\* the weight the configuration gives a backend identifier: gemini and groq
\* share the llm weight, an identifier without a weight counts 0.1
SharedWeight(model_name) ==
    LET category == IF model_name \in {"gemini", "groq"} THEN "llm" ELSE model_name
    IN  IF category \in DOMAIN ensemble_weights THEN ensemble_weights[category] ELSE 10

\* sum of value_i * weight_i and of weight_i over the results present
RECURSIVE SumValueWeight(_, _, _)
SumValueWeight(rs, field, i) ==
    IF i = 0 THEN 0
    ELSE rs[i][field] * SharedWeight(rs[i].model_name) + SumValueWeight(rs, field, i - 1)

RECURSIVE SumWeight(_, _)
SumWeight(rs, i) ==
    IF i = 0 THEN 0 ELSE SharedWeight(rs[i].model_name) + SumWeight(rs, i - 1)

\* reported is sum / total to four decimals: within half a unit of it
IsMeanOf(reported, sum, total) ==
    LET d == reported * total - sum
    IN  (IF d < 0 THEN -d ELSE d) * 2 <= (IF total < 0 THEN -total ELSE total)

\* C32: the aggregated fake_probability and confidence are the weighted means
\* sum(value_i * weight_i) / sum(weight_i) over the backends present in the
\* result list only, gemini and groq sharing the llm weight and unrecognized
\* identifiers weighted 0.1; a result of 0.0 and one of 1.0 at equal weight
\* give 0.5.
C32_WeightedMean ==
    (aggOut.status = "returned" /\ aggIn # <<>>)
    => /\ IsMeanOf(aggOut.fake_probability,
                   SumValueWeight(aggIn, "fake_probability", Len(aggIn)),
                   SumWeight(aggIn, Len(aggIn)))
       /\ IsMeanOf(aggOut.confidence,
                   SumValueWeight(aggIn, "confidence", Len(aggIn)),
                   SumWeight(aggIn, Len(aggIn)))
       /\ (/\ Len(aggIn) = 2
           /\ SharedWeight(aggIn[1].model_name) = SharedWeight(aggIn[2].model_name)
           /\ aggIn[1].fake_probability = 0
           /\ aggIn[2].fake_probability = Unit)
          => aggOut.fake_probability = 5000

(***************************************************************************)
(* Python floats. prob, conf and weight are binary64 values and every      *)
(* *, + and / of the aggregator rounds its exact result to the nearest     *)
(* value with a 53-bit significand, ties to even. A float is               *)
(* [m |-> significand, e |-> exponent] with value m * 2^e; significands    *)
(* and the exact intermediate results are naturals written in base 2^14,   *)
(* least significant digit first.                                          *)
(***************************************************************************)
Precision == 53

Limb == 2^14

RECURSIVE BigNorm(_)
BigNorm(a) ==
    IF a = <<>> THEN <<>>
    ELSE IF a[Len(a)] = 0 THEN BigNorm(SubSeq(a, 1, Len(a) - 1))
    ELSE a

BigOfInt(n) ==
    BigNorm(<<n % Limb, (n \div Limb) % Limb, n \div (Limb * Limb)>>)

RECURSIVE BigAddCarry(_, _, _)
BigAddCarry(a, b, c) ==
    IF a = <<>> /\ b = <<>> THEN (IF c = 0 THEN <<>> ELSE <<c>>)
    ELSE LET x == (IF a = <<>> THEN 0 ELSE Head(a)) + (IF b = <<>> THEN 0 ELSE Head(b)) + c
         IN  <<x % Limb>> \o BigAddCarry(IF a = <<>> THEN <<>> ELSE Tail(a),
                                         IF b = <<>> THEN <<>> ELSE Tail(b),
                                         x \div Limb)

BigAdd(a, b) == BigAddCarry(a, b, 0)

\* a - b for a >= b
RECURSIVE BigSubBorrow(_, _, _)
BigSubBorrow(a, b, c) ==
    IF a = <<>> THEN <<>>
    ELSE LET x == Head(a) - (IF b = <<>> THEN 0 ELSE Head(b)) - c
         IN  <<(x + Limb) % Limb>> \o BigSubBorrow(Tail(a),
                                                   IF b = <<>> THEN <<>> ELSE Tail(b),
                                                   IF x < 0 THEN 1 ELSE 0)

BigSub(a, b) == BigNorm(BigSubBorrow(a, b, 0))

\* a * k + c for a digit k
RECURSIVE BigMulSmall(_, _, _)
BigMulSmall(a, k, c) ==
    IF a = <<>> THEN (IF c = 0 THEN <<>> ELSE <<c>>)
    ELSE LET x == Head(a) * k + c
         IN  <<x % Limb>> \o BigMulSmall(Tail(a), k, x \div Limb)

RECURSIVE BigMul(_, _)
BigMul(a, b) ==
    IF b = <<>> THEN <<>>
    ELSE BigNorm(BigAdd(BigMulSmall(a, Head(b), 0), <<0>> \o BigMul(a, Tail(b))))

\* -1, 0, 1 as a < b, a = b, a > b; both without leading zero digits
RECURSIVE BigCmp(_, _)
BigCmp(a, b) ==
    IF Len(a) # Len(b) THEN (IF Len(a) < Len(b) THEN -1 ELSE 1)
    ELSE IF a = <<>> THEN 0
    ELSE IF a[Len(a)] # b[Len(b)] THEN (IF a[Len(a)] < b[Len(b)] THEN -1 ELSE 1)
    ELSE BigCmp(SubSeq(a, 1, Len(a) - 1), SubSeq(b, 1, Len(b) - 1))

RECURSIVE DigitBits(_)
DigitBits(d) == IF d = 0 THEN 0 ELSE 1 + DigitBits(d \div 2)

BitLength(a) == IF a = <<>> THEN 0 ELSE (Len(a) - 1) * 14 + DigitBits(a[Len(a)])

BigIsOdd(a) == a # <<>> /\ a[1] % 2 = 1

\* a * 2^n
BigShl(a, n) ==
    IF a = <<>> THEN <<>>
    ELSE [i \in 1..(n \div 14) |-> 0] \o BigMulSmall(a, 2^(n % 14), 0)

\* a \div 2^n
BigShr(a, n) ==
    LET q == n \div 14
        r == n % 14
        b == IF q >= Len(a) THEN <<>> ELSE SubSeq(a, q + 1, Len(a))
    IN  BigNorm([i \in 1..Len(b) |->
                    (b[i] \div 2^r)
                    + (IF i < Len(b) THEN (b[i + 1] % 2^r) * 2^(14 - r) ELSE 0)])

\* a % 2^n
BigLow(a, n) == BigSub(a, BigShl(BigShr(a, n), n))

\* floor(a / 2^n), brought to the nearest integer with ties to even
BigShrRound(a, n) ==
    IF n = 0 THEN a
    ELSE LET hi   == BigShr(a, n)
             low  == BigLow(a, n)
             half == BigShl(<<1>>, n - 1)
             c    == BigCmp(low, half)
         IN  IF c > 0 \/ (c = 0 /\ BigIsOdd(hi)) THEN BigAdd(hi, <<1>>) ELSE hi

\* the greatest digit q with q * d <= r, for r < d * Limb, found bit by bit
RECURSIVE QuotientDigit(_, _, _, _)
QuotientDigit(r, d, bit, q) ==
    IF bit < 0 THEN q
    ELSE IF BigCmp(BigNorm(BigMulSmall(d, q + 2^bit, 0)), r) <= 0
         THEN QuotientDigit(r, d, bit - 1, q + 2^bit)
         ELSE QuotientDigit(r, d, bit - 1, q)

\* <<quotient, remainder>> of n \div Limb^k by d > 0, one digit of n at a time
RECURSIVE BigDivFrom(_, _, _)
BigDivFrom(n, d, k) ==
    IF k >= Len(n) THEN << <<>>, <<>> >>
    ELSE LET prev == BigDivFrom(n, d, k + 1)
             r2   == BigNorm(<<n[k + 1]>> \o prev[2])
             q    == QuotientDigit(r2, d, 13, 0)
         IN  <<BigNorm(<<q>> \o prev[1]), BigSub(r2, BigMulSmall(d, q, 0))>>

BigDivMod(n, d) == BigDivFrom(n, d, 0)

\* the float nearest to m * 2^e
FloatRound(m, e) ==
    IF BitLength(m) <= Precision THEN [m |-> m, e |-> e]
    ELSE LET s == BitLength(m) - Precision
             r == BigShrRound(m, s)
         IN  IF BitLength(r) > Precision THEN [m |-> BigShr(r, 1), e |-> e + s + 1]
             ELSE [m |-> r, e |-> e + s]

FloatZero == [m |-> <<>>, e |-> 0]

FloatOfInt(n) == [m |-> BigOfInt(n), e |-> 0]

FloatMul(a, b) == FloatRound(BigMul(a.m, b.m), a.e + b.e)

\* both significands at the lesser exponent
AlignedM(a, b) == IF a.e > b.e THEN BigShl(a.m, a.e - b.e) ELSE a.m

FloatAdd(a, b) ==
    IF a.m = <<>> THEN b
    ELSE IF b.m = <<>> THEN a
    ELSE FloatRound(BigAdd(AlignedM(a, b), AlignedM(b, a)), IF a.e < b.e THEN a.e ELSE b.e)

\* a / b for b > 0: a quotient of Precision + 3 bits or more, and one bit
\* more for a remainder
FloatDiv(a, b) ==
    IF a.m = <<>> THEN FloatZero
    ELSE LET s  == Precision + 3 + BitLength(b.m) - BitLength(a.m)
             qr == BigDivMod(BigShl(a.m, s), b.m)
             q  == BigAddCarry(BigMulSmall(qr[1], 2, 0), <<>>,
                               IF qr[2] = <<>> THEN 0 ELSE 1)
         IN  FloatRound(q, a.e - b.e - s - 1)

\* -1, 0, 1 as a < b, a = b, a > b, for a, b >= 0
FloatCmp(a, b) == BigCmp(BigNorm(AlignedM(a, b)), BigNorm(AlignedM(b, a)))

\* the float of a literal with four decimals, in ten-thousandths
FloatOfUnits(x) == FloatDiv(FloatOfInt(x), FloatOfInt(Unit))

\* the float of a weight in hundredths
FloatOfWeight(w) == FloatDiv(FloatOfInt(w), FloatOfInt(100))

\* round(x, 4), in ten-thousandths
Round4(x) ==
    LET n == BigMul(x.m, BigOfInt(Unit))
        r == IF x.e >= 0 THEN BigShl(n, x.e) ELSE BigShrRound(n, -x.e)
    IN  (IF Len(r) >= 1 THEN r[1] ELSE 0) + (IF Len(r) >= 2 THEN r[2] * Limb ELSE 0)
\* the three sums of the loop of _aggregate_results after the first i results
RECURSIVE FloatSums(_, _)
FloatSums(rs, i) ==
    IF i = 0 THEN [prob |-> FloatZero, conf |-> FloatZero, weight |-> FloatZero]
    ELSE LET prev   == FloatSums(rs, i - 1)
             weight == FloatOfWeight(WeightOf(rs[i].model_name))
         IN  [prob   |-> FloatAdd(prev.prob,
                                  FloatMul(FloatOfUnits(rs[i].fake_probability), weight)),
              conf   |-> FloatAdd(prev.conf,
                                  FloatMul(FloatOfUnits(rs[i].confidence), weight)),
              weight |-> FloatAdd(prev.weight, weight)]

\* EnsemblePredictor._determine_verdict on floats
DetermineVerdictFloat(fake_probability, confidence, cfg) ==
    IF FloatCmp(confidence, FloatOfUnits(cfg.min_confidence)) < 0 THEN "UNCERTAIN"
    ELSE IF FloatCmp(fake_probability, FloatOfUnits(cfg.fake_threshold)) >= 0 THEN "FAKE"
    ELSE IF FloatCmp(fake_probability, FloatOfUnits(cfg.real_threshold)) <= 0 THEN "REAL"
    ELSE "UNCERTAIN"

\* EnsemblePredictor._aggregate_results on floats, for weights >= 0
AggregateResultsFloat(model_results, cfg) ==
    IF model_results = <<>> THEN CreateFallbackResult
    ELSE LET sums == FloatSums(model_results, Len(model_results))
             fp   == IF sums.weight.m # <<>> THEN FloatDiv(sums.prob, sums.weight)
                     ELSE FloatOfUnits(5000)
             cf   == IF sums.weight.m # <<>> THEN FloatDiv(sums.conf, sums.weight)
                     ELSE FloatOfUnits(5000)
         IN  [status |-> "returned",
              prediction |-> DetermineVerdictFloat(fp, cf, cfg),
              fake_probability |-> Round4(fp),
              confidence |-> Round4(cf),
              models_used |-> ModelsUsed(model_results),
              explanation |-> "generated"]
(***************************************************************************)
(* core/ensemble.py: the aggregator on floats, called on its own           *)
(***************************************************************************)
\* values of the results: four-decimal numbers as the backends return them
FloatProbs == {100, 2800, 5300}
FloatNames == {"heuristic", "huggingface", "gemini"}

FloatResults ==
    { [model_name |-> m, fake_probability |-> p, confidence |-> 9000] :
        m \in FloatNames, p \in FloatProbs }

\* result lists with one result a backend at most, in any order
FloatLists ==
    { l \in UNION { [1..n -> FloatResults] : n \in 0..Cardinality(FloatNames) } :
        \A i, j \in DOMAIN l : i # j => l[i].model_name # l[j].model_name }

InitFloat ==
    /\ api_key = [b \in Backends |-> ""]
    /\ hf_lib = TRUE
    /\ thresholds = DefaultThresholds
    /\ ensemble_weights = EnsembleWeights
    /\ InitClock
    /\ InitAdapters
    /\ InitRequests
    /\ InitVerdictVars
    /\ InitCacheVars

\* a caller hands a model_results list to _aggregate_results
AggregateFloatCall ==
    /\ aggOut.status = "none"
    /\ \E model_results \in FloatLists :
          /\ aggIn' = model_results
          /\ aggOut' = AggregateResultsFloat(model_results, thresholds)
    /\ UNCHANGED <<vIn, vOut, call, app, heur, lock, thread>>
    /\ UNCHANGED <<configVars, clockVars, adapterVars, netVars, requestVars, cacheVars>>

NextFloat == AggregateFloatCall

SpecFloat == InitFloat /\ [][NextFloat]_vars

\* the lists that hold the results of rs in another order
Reordered(rs) ==
    { [i \in DOMAIN rs |-> rs[f[i]]] :
        f \in { g \in [DOMAIN rs -> DOMAIN rs] : \A i, j \in DOMAIN rs : i # j => g[i] # g[j] } }

\* C33: aggregation is order-independent: every permutation of the list of
\* results aggregates to the same prediction, fake_probability and
\* confidence.
C33_OrderIndependent ==
    aggOut.status = "returned"
    => \A other \in Reordered(aggIn) :
          LET out == AggregateResultsFloat(other, thresholds)
          IN  /\ out.prediction = aggOut.prediction
              /\ out.fake_probability = aggOut.fake_probability
              /\ out.confidence = aggOut.confidence

(***************************************************************************)
(* core/ensemble.py: one orchestration call, step by step. A coroutine     *)
(* gives up control only where it awaits: between a backend's availability *)
(* check and the start of its predict (asyncio.wait_for schedules the call *)
(* as a task), and while the network call is in flight.                    *)
(***************************************************************************)
CheckPc(b) == CASE b = "huggingface" -> "hf_check"
                [] b = "gemini"      -> "gemini_check"
                [] b = "groq"        -> "groq_check"
CallPc(b)  == CASE b = "huggingface" -> "hf_call"
                [] b = "gemini"      -> "gemini_call"
                [] b = "groq"        -> "groq_call"
NetPc(b)   == CASE b = "huggingface" -> "hf_net"
                [] b = "gemini"      -> "gemini_net"
                [] b = "groq"        -> "groq_net"

\* exception classes that reach the orchestrator's handlers; all derive from
\* Exception (asyncio.CancelledError, which does not, stays inside wait_for)
ExceptionKinds == {"QuotaExceededError", "ClientError", "TimeoutError", "RuntimeError"}

HandlerCatchesQuotaOnly(b, exc) == exc = "QuotaExceededError"

\* the except clauses of _run_models_parallel (huggingface) and of
\* _run_llm_with_fallback (gemini, groq): "except Exception" in each
HandlerCatches(b, exc) == exc \in ExceptionKinds

\* where _run_models_parallel goes when backend b was skipped
AfterSkip(b) ==
    CASE b = "huggingface" -> "gemini_check"
      [] b = "gemini"      -> "groq_check"
      [] b = "groq"        -> "aggregate"

AfterFailureAgain(b) == CheckPc(b)

AfterFailureStop(b) == "aggregate"

\* ... when its call raised and the handler caught it
AfterFailure(b) ==
    CASE b = "huggingface" -> "gemini_check"
      [] b = "gemini"      -> "groq_check"
      [] b = "groq"        -> "aggregate"

AfterSuccessFallThrough(b) ==
    CASE b = "huggingface" -> "gemini_check"
      [] b = "gemini"      -> "groq_check"
      [] b = "groq"        -> "aggregate"

\* ... when its call returned a result ("return result" ends the LLM chain)
AfterSuccess(b) ==
    CASE b = "huggingface" -> "gemini_check"
      [] b = "gemini"      -> "aggregate"
      [] b = "groq"        -> "aggregate"

\* an exception of class exc leaves backend b's predict in request r
Propagate(r, b, exc, how) ==
    /\ outcome' = [outcome EXCEPT ![r][b] = how]
    /\ IF HandlerCatches(b, exc)
       THEN /\ pc' = [pc EXCEPT ![r] = AfterFailure(b)]
            /\ ret' = ret
       ELSE /\ pc' = [pc EXCEPT ![r] = "done"]
            /\ ret' = [ret EXCEPT ![r] = Raised]

\* predict() up to the first backend: the heuristic runs synchronously and
\* its exception, if any, is logged and dropped
StartEffect(r) ==
    /\ pc[r] \in {"idle", "done"}
    /\ started < MaxRequests
    /\ started' = started + 1
    /\ \E raises \in BOOLEAN, h \in HeuristicOutputs :
          results' = [results EXCEPT ![r] =
                         IF raises THEN <<>> ELSE <<ModelResult("heuristic", h)>>]
    /\ pc' = [pc EXCEPT ![r] = "hf_check"]
    /\ outcome' = [outcome EXCEPT ![r] = [b \in Backends |-> "none"]]
    /\ ret' = [ret EXCEPT ![r] = NoReturn]
    /\ attempt' = [attempt EXCEPT ![r] = 0]
    /\ netCalls' = [netCalls EXCEPT ![r] = [b \in Backends |-> 0]]
    /\ UNCHANGED <<configVars, clockVars, adapterVars, succToday, callDay>>

\* predict() called on its own
Start(r) ==
    /\ StartEffect(r)
    /\ UNCHANGED <<directVars, cacheVars>>

\* "if self.config.has_X_key() and self.X_client.is_available():"
Check(r, b) ==
    /\ pc[r] = CheckPc(b)
    /\ IF HasKey(b)
       THEN /\ usage_today' = [usage_today EXCEPT ![b] = AvailUsage(b)]
            /\ last_reset_date' = [last_reset_date EXCEPT ![b] = AvailDate(b)]
            /\ IF IsAvailable(b)
               THEN /\ pc' = [pc EXCEPT ![r] = CallPc(b)]
                    /\ outcome' = outcome
               ELSE /\ pc' = [pc EXCEPT ![r] = AfterSkip(b)]
                    /\ outcome' = [outcome EXCEPT ![r][b] = "unavailable"]
       ELSE /\ pc' = [pc EXCEPT ![r] = AfterSkip(b)]
            /\ outcome' = [outcome EXCEPT ![r][b] = "unavailable"]
            /\ UNCHANGED <<usage_today, last_reset_date>>
    /\ UNCHANGED <<configVars, clockVars, success_count, error_count, netVars,
                   started, results, attempt, callDay, ret, directVars, cacheVars>>

\* X_client.predict() up to its first await: _check_quota, then the request
\* goes out; QuotaExceededError is counted and raised before any network call
PredictBegin(r, b) ==
    /\ pc[r] = CallPc(b)
    /\ usage_today' = [usage_today EXCEPT ![b] = UsageAfterReset(b)]
    /\ last_reset_date' = [last_reset_date EXCEPT ![b] = DateAfterReset(b)]
    /\ IF QuotaExceeded(b)
       THEN /\ error_count' = [error_count EXCEPT ![b] = @ + 1]
            /\ Propagate(r, b, "QuotaExceededError", "quota")
            /\ UNCHANGED <<netCalls, attempt, callDay>>
       ELSE /\ netCalls' = [netCalls EXCEPT ![r][b] = @ + 1]
            /\ attempt' = [attempt EXCEPT ![r] = 1]
            /\ callDay' = [callDay EXCEPT ![r] = today]
            /\ pc' = [pc EXCEPT ![r] = NetPc(b)]
            /\ UNCHANGED <<error_count, outcome, ret>>
    /\ UNCHANGED <<configVars, clockVars, success_count, succToday, started,
                   results, directVars, cacheVars>>

\* the provider answers 200: usage and health counters move, the parsed
\* result is returned to the orchestrator, which appends it
NetSuccess(r, b) ==
    /\ pc[r] = NetPc(b)
    /\ \E payload \in Payloads(b) :
          results' = [results EXCEPT ![r] =
                         Append(@, ModelResult(b, ParseResponse(b, payload)))]
    /\ usage_today' = [usage_today EXCEPT ![b] = @ + 1]
    /\ success_count' = [success_count EXCEPT ![b] = @ + 1]
    /\ succToday' = [succToday EXCEPT ![b] = IF callDay[r] = today THEN @ + 1 ELSE @]
    /\ outcome' = [outcome EXCEPT ![r][b] = "ok"]
    /\ pc' = [pc EXCEPT ![r] = AfterSuccess(b)]
    /\ UNCHANGED <<configVars, clockVars, last_reset_date, error_count, netCalls,
                   started, attempt, callDay, ret, directVars, cacheVars>>

\* the provider answers 429 (or, for gemini, 400 mentioning quota):
\* QuotaExceededError, which tenacity does not retry
NetQuota(r, b) ==
    /\ pc[r] = NetPc(b)
    /\ b # "huggingface"
    /\ error_count' = [error_count EXCEPT ![b] = @ + 1]
    /\ Propagate(r, b, "QuotaExceededError", "quota")
    /\ UNCHANGED <<configVars, clockVars, usage_today, last_reset_date,
                   success_count, netVars, started, results, attempt, callDay,
                   directVars, cacheVars>>

\* the network attempt fails inside the adapter: aiohttp.ClientError (any
\* other status, a connection error), asyncio.TimeoutError (the adapter's own
\* deadline), or an exception of the sentiment client. The two LLM adapters
\* retry once (tenacity, stop_after_attempt(2)); the sentiment adapter does not.
NetFailure(r, b) ==
    /\ pc[r] = NetPc(b)
    /\ \E exc \in (IF b = "huggingface" THEN {"RuntimeError", "TimeoutError"}
                                         ELSE {"ClientError", "TimeoutError"}) :
          IF b # "huggingface" /\ attempt[r] < MaxAttempts
          THEN /\ attempt' = [attempt EXCEPT ![r] = @ + 1]
               /\ netCalls' = [netCalls EXCEPT ![r][b] = @ + 1]
               /\ UNCHANGED <<error_count, pc, outcome, ret>>
          ELSE /\ error_count' = [error_count EXCEPT ![b] = @ + 1]
               /\ Propagate(r, b, exc,
                            IF exc = "TimeoutError" THEN "timeout" ELSE "error")
               /\ UNCHANGED <<attempt, netCalls>>
    /\ UNCHANGED <<configVars, clockVars, usage_today, last_reset_date,
                   success_count, succToday, started, results, callDay, directVars, cacheVars>>

\* _run_with_timeout: the orchestrator's deadline passes first; wait_for
\* cancels the call (CancelledError passes predict's "except Exception"
\* untouched, so no counter moves) and raises asyncio.TimeoutError
OuterTimeout(r, b) ==
    /\ pc[r] = NetPc(b)
    /\ Propagate(r, b, "TimeoutError", "timeout")
    /\ UNCHANGED <<configVars, clockVars, adapterVars, netVars, started, results,
                   attempt, callDay, directVars, cacheVars>>

\* predict(): _aggregate_results over whatever was collected, then return
Aggregate(r) ==
    /\ pc[r] = "aggregate"
    /\ ret' = [ret EXCEPT ![r] = AggregateResults(results[r], thresholds)]
    /\ pc' = [pc EXCEPT ![r] = "done"]
    /\ UNCHANGED <<configVars, clockVars, adapterVars, netVars, started, results,
                   attempt, callDay, outcome, directVars, cacheVars>>

\* midnight passes
Tick ==
    /\ today < MaxDay
    /\ today' = today + 1
    /\ succToday' = [b \in Backends |-> 0]
    /\ UNCHANGED <<configVars, adapterVars, netCalls, requestVars, directVars, cacheVars>>

InitPredict ==
    /\ api_key \in [Backends -> KeyChoices]
    /\ hf_lib \in BOOLEAN
    /\ \/ \A b \in Backends : api_key[b] # "placeholder"
       \/ \A b \in Backends : api_key[b] = "placeholder"
    /\ ~hf_lib => \A b \in Backends : api_key[b] = "key"
    /\ thresholds = DefaultThresholds
    /\ ensemble_weights = EnsembleWeights
    /\ InitClock
    /\ InitAdapters
    /\ InitRequests
    /\ InitVerdictVars
    /\ InitCacheVars

\* app.py runs one analysis at a time: asyncio.run(ensemble.predict(text))
\* returns before the next one starts
StartNext(r) ==
    /\ \A q \in Requests : pc[q] \in {"idle", "done"}
    /\ Start(r)

NextPredict ==
    \/ \E r \in {"r1"} : StartNext(r)
    \/ \E r \in Requests, b \in Backends : Check(r, b)
    \/ \E r \in Requests, b \in Backends : PredictBegin(r, b)
    \/ \E r \in Requests, b \in Backends : NetSuccess(r, b)
    \/ \E r \in Requests, b \in Backends : NetQuota(r, b)
    \/ \E r \in Requests, b \in Backends : NetFailure(r, b)
    \/ \E r \in Requests, b \in Backends : OuterTimeout(r, b)
    \/ \E r \in Requests : Aggregate(r)
    \/ Tick

Spec == InitPredict /\ [][NextPredict]_vars

\* One request, every backend configured, each adapter either fresh or with
\* its daily quota used up by earlier requests. The event loop runs a coroutine that is ready, and a network
\* call either answers or is cut off by a deadline (the adapter's
\* ClientTimeout, the orchestrator's wait_for), so a step of a request that
\* stays possible is taken.
InitTerminates ==
    /\ api_key = [b \in Backends |-> "key"]
    /\ hf_lib = TRUE
    /\ thresholds = DefaultThresholds
    /\ ensemble_weights = EnsembleWeights
    /\ InitClock
    /\ usage_today \in [Backends -> {0, DailyQuota}]
    /\ last_reset_date = [b \in Backends |-> 0]
    /\ success_count = usage_today
    /\ error_count = [b \in Backends |-> 0]
    /\ netCalls = [r \in Requests |-> [b \in Backends |-> 0]]
    /\ succToday = usage_today
    /\ InitRequests
    /\ InitVerdictVars
    /\ InitCacheVars

StartOnce(r) ==
    /\ started = 0
    /\ StartNext(r)

RequestStep(r) ==
    \/ \E b \in Backends : Check(r, b)
    \/ \E b \in Backends : PredictBegin(r, b)
    \/ \E b \in Backends : NetSuccess(r, b)
    \/ \E b \in Backends : NetQuota(r, b)
    \/ \E b \in Backends : NetFailure(r, b)
    \/ \E b \in Backends : OuterTimeout(r, b)
    \/ Aggregate(r)

NextTerminates ==
    \/ \E r \in {"r1"} : StartOnce(r)
    \/ \E r \in Requests : RequestStep(r)
    \/ Tick

SpecTerminates ==
    /\ InitTerminates
    /\ [][NextTerminates]_vars
    /\ \A r \in Requests : WF_vars(RequestStep(r))

InFlight(r) == pc[r] \notin {"idle", "done"}

\* C37: a request makes at most one network attempt on the sentiment
\* backend and at most MaxAttempts (one attempt and one retry) on each LLM,
\* and every request that was started ends with a verdict returned.
C37_EveryRequestTerminates ==
    /\ [](\A r \in Requests :
             /\ netCalls[r]["huggingface"] <= 1
             /\ netCalls[r]["gemini"] <= MaxAttempts
             /\ netCalls[r]["groq"] <= MaxAttempts)
    /\ \A r \in Requests :
          InFlight(r) ~> (pc[r] = "done" /\ ret[r].status = "returned")

\* every backend was tried to its last attempt and none answered
C37_Witness ==
    \E r \in Requests :
       /\ pc[r] = "done"
       /\ ret[r].status = "returned"
       /\ netCalls[r] = [b \in Backends |-> IF b = "huggingface" THEN 1 ELSE MaxAttempts]
       /\ \A b \in Backends : outcome[r][b] \in {"timeout", "error"}

\* Several orchestration calls run concurrently on one event loop and share
\* the adapters; one backend is configured, whichever it is.
InitConcurrent ==
    /\ \E k \in Backends : api_key = [b \in Backends |-> IF b = k THEN "key" ELSE ""]
    /\ hf_lib = TRUE
    /\ thresholds = DefaultThresholds
    /\ ensemble_weights = EnsembleWeights
    /\ InitClock
    /\ InitAdapters
    /\ InitRequests
    /\ InitVerdictVars
    /\ InitCacheVars

NextConcurrent ==
    \/ \E r \in Requests : Start(r)
    \/ \E r \in Requests, b \in Backends : Check(r, b)
    \/ \E r \in Requests, b \in Backends : PredictBegin(r, b)
    \/ \E r \in Requests, b \in Backends : NetSuccess(r, b)
    \/ \E r \in Requests, b \in Backends : NetQuota(r, b)
    \/ \E r \in Requests, b \in Backends : NetFailure(r, b)
    \/ \E r \in Requests, b \in Backends : OuterTimeout(r, b)
    \/ \E r \in Requests : Aggregate(r)
    \/ Tick

SpecConcurrent == InitConcurrent /\ [][NextConcurrent]_vars

(***************************************************************************)
(* Properties of one orchestration call                                    *)
(***************************************************************************)
FailedOutcomes == {"quota", "error", "timeout"}

\* backend b's predict was called in request r
Attempted(r, b) ==
    \/ pc[r] \in {CallPc(b), NetPc(b)}
    \/ outcome[r][b] \in FailedOutcomes \cup {"ok"}

ResultsOf(r, names) == {i \in 1..Len(results[r]) : results[r][i].model_name \in names}

\* C1: predict never raises and, once it has returned, holds a structured verdict
\* whose prediction is FAKE, REAL or UNCERTAIN, whatever each backend did and
\* whether or not the heuristic raised.
C1_PredictNeverRaises ==
    \A r \in Requests :
        /\ ret[r].status # "raised"
        /\ pc[r] = "done" =>
              /\ ret[r].status = "returned"
              /\ ret[r].prediction \in Verdicts

\* the heuristic raised and all three backends failed, each in its own way
C1_Witness ==
    \E r \in Requests :
        /\ pc[r] = "done"
        /\ results[r] = <<>>
        /\ outcome[r]["huggingface"] = "timeout"
        /\ outcome[r]["gemini"] = "quota"
        /\ outcome[r]["groq"] = "error"
        /\ ret[r].prediction = "UNCERTAIN"

\* C2: the primary LLM is attempted exactly when it is configured and reports
\* available; the secondary is considered only after the primary was skipped or
\* failed, and is then attempted exactly when it is configured and reports
\* available; a successful primary ends the chain, so at most one LLM result is
\* collected, and none when both are skipped or fail.
C2_ChainState ==
    \A r \in Requests :
        /\ pc[r] = "groq_check" =>
              outcome[r]["gemini"] \in FailedOutcomes \cup {"unavailable"}
        /\ Attempted(r, "groq") =>
              outcome[r]["gemini"] \in FailedOutcomes \cup {"unavailable"}
        /\ outcome[r]["gemini"] = "ok" => outcome[r]["groq"] = "none"
        /\ (pc[r] \in {"aggregate", "done"} /\ outcome[r]["gemini"] # "ok") =>
              outcome[r]["groq"] # "none"
        /\ Cardinality(ResultsOf(r, {"gemini", "groq"})) <= 1
        /\ (pc[r] \in {"aggregate", "done"} /\ outcome[r]["gemini"] # "ok"
              /\ outcome[r]["groq"] # "ok") => ResultsOf(r, {"gemini", "groq"}) = {}

C2_ChainStep ==
    \A r \in Requests : \A b \in {"gemini", "groq"} :
        (pc[r] = CheckPc(b) /\ pc'[r] # pc[r]) =>
            (pc'[r] = CallPc(b) <=> (HasKey(b) /\ IsAvailable(b)))

C2_FallbackChain == [](C2_ChainState) /\ [][C2_ChainStep]_vars

\* the primary hit its quota and the secondary answered
C2_Witness ==
    \E r \in Requests :
        /\ pc[r] = "done"
        /\ outcome[r]["gemini"] = "quota"
        /\ outcome[r]["groq"] = "ok"
        /\ Cardinality(ResultsOf(r, {"gemini", "groq"})) = 1

\* C3: while the sentiment call of a request is in flight, the LLM chain of the
\* same request has been dispatched or can be dispatched at once: it does not
\* wait for the sentiment call to finish or time out.
C3_LlmDispatchDoesNotWait ==
    \A r \in Requests :
        pc[r] = "hf_net" =>
            \/ \E b \in {"gemini", "groq"} : outcome[r][b] # "none"
            \/ ENABLED Check(r, "gemini")

\* C4: a backend whose call failed or timed out has no entry in the result list,
\* no exception reaches the caller, the failing step leaves the results collected
\* so far untouched, and the branches after it still run: after a failed
\* sentiment call the LLM chain is entered in the same request.
C4_FailureState ==
    \A r \in Requests :
        /\ ret[r].status # "raised"
        /\ \A b \in Backends :
              outcome[r][b] \in FailedOutcomes =>
                  /\ ResultsOf(r, {b}) = {}
                  /\ pc[r] = "done" =>
                        \A i \in 1..Len(ret[r].models_used) : ret[r].models_used[i] # b
        /\ outcome[r]["huggingface"] \in FailedOutcomes =>
              /\ pc[r] \notin {"hf_check", "hf_call", "hf_net"}
              /\ pc[r] \in {"aggregate", "done"} => outcome[r]["gemini"] # "none"

C4_FailureStep ==
    \A r \in Requests : \A b \in Backends :
        (outcome[r][b] = "none" /\ outcome'[r][b] \in FailedOutcomes) =>
            /\ results'[r] = results[r]
            /\ b = "huggingface" => pc'[r] = "gemini_check"

C4_FailureIsAbsence == [](C4_FailureState) /\ [][C4_FailureStep]_vars

\* the sentiment call timed out; the heuristic and the primary LLM are in the list
C4_Witness ==
    \E r \in Requests :
        /\ pc[r] = "done"
        /\ outcome[r]["huggingface"] = "timeout"
        /\ outcome[r]["gemini"] = "ok"
        /\ ret[r].models_used = <<"heuristic", "gemini">>

\* the step ends a predict call of backend b that request r had started: it
\* returns, it raises, or the orchestrator's deadline cuts it off
EndsPredict(r, b) ==
    \/ pc[r] = CallPc(b) /\ pc'[r] \notin {CallPc(b), NetPc(b)}
    \/ pc[r] = NetPc(b) /\ pc'[r] # NetPc(b)

\* C36: the health counters account for every dispatched call: each predict
\* call the orchestrator starts and that ends (returning, failing or cut off
\* at the per-model deadline) increments exactly one of success_count and
\* error_count, no other step moves them, and success_count moves exactly
\* when usage_today is incremented.
C36_Step ==
    \A b \in Backends :
        /\ (\E r \in Requests : EndsPredict(r, b))
           => \/ /\ success_count'[b] = success_count[b] + 1
                 /\ error_count'[b] = error_count[b]
              \/ /\ success_count'[b] = success_count[b]
                 /\ error_count'[b] = error_count[b] + 1
        /\ ~(\E r \in Requests : EndsPredict(r, b))
           => /\ success_count'[b] = success_count[b]
              /\ error_count'[b] = error_count[b]
        /\ success_count'[b] = success_count[b] + 1
           <=> usage_today'[b] = usage_today[b] + 1

C36_CountersAccountForCalls == [][C36_Step]_vars

(***************************************************************************)
(* Properties of the quota bookkeeping                                     *)
(***************************************************************************)
\* C5: once daily_quota predict calls have succeeded within the current day,
\* is_available() is false, and a predict begun then fails with QuotaExceeded
\* before any network call and leaves usage_today as it was.
C5_ExhaustedState ==
    \A b \in Backends : succToday[b] >= DailyQuota => ~IsAvailable(b)

C5_ExhaustedStep ==
    \A r \in Requests : \A b \in Backends :
        (pc[r] = CallPc(b) /\ pc'[r] # pc[r] /\ succToday[b] >= DailyQuota) =>
            /\ outcome'[r][b] = "quota"
            /\ pc'[r] # NetPc(b)
            /\ netCalls'[r][b] = netCalls[r][b]
            /\ usage_today'[b] = usage_today[b]

C5_QuotaExhausted == [](C5_ExhaustedState) /\ [][C5_ExhaustedStep]_vars

\* a predict that began after the quota was used up and failed fast
C5_Witness ==
    \E r \in Requests : \E b \in Backends :
        /\ succToday[b] >= DailyQuota
        /\ outcome[r][b] = "quota"
        /\ netCalls[r][b] = 0
        /\ usage_today[b] = DailyQuota

\* C6: under any interleaving of concurrent predict calls, usage_today never
\* exceeds daily_quota and no more than daily_quota calls succeed in one day.
C6_QuotaNeverExceeded ==
    \A b \in Backends :
        /\ usage_today[b] <= DailyQuota
        /\ succToday[b] <= DailyQuota

\* the network attempt of backend b in flight in request r fails inside the
\* adapter with a network or timeout error (not a quota answer, and not the
\* orchestrator's own deadline, which moves no counter)
TransientFailureStep(r, b) ==
    /\ pc[r] = NetPc(b)
    /\ \/ attempt'[r] = attempt[r] + 1
       \/ /\ error_count'[b] = error_count[b] + 1
          /\ outcome'[r][b] \in {"error", "timeout"}

\* C15: in each of the three remote adapters, a first network attempt that
\* fails with a transient network or timeout error is followed by exactly one
\* further attempt, and no predict call makes more than two attempts.
C15_RetryStep ==
    \A r \in Requests : \A b \in Backends :
        (TransientFailureStep(r, b) /\ netCalls[r][b] = 1)
        => /\ netCalls'[r][b] = 2
           /\ pc'[r] = NetPc(b)

C15_AtMostTwo ==
    \A r \in Requests : \A b \in Backends : netCalls[r][b] <= MaxAttempts

C15_RetryOnce == [](C15_AtMostTwo) /\ [][C15_RetryStep]_vars

\* C22 as stated: with no backend credential configured every adapter
\* reports is_available() false, a predict request makes no remote call, and
\* the verdict it returns (the heuristic having returned) has models_used
\* equal to [heuristic].
C22_NoCredentials ==
    (\A b \in Backends : ~HasKey(b)) =>
        /\ \A b \in Backends : ~IsAvailable(b)
        /\ \A r \in Requests, b \in Backends : netCalls[r][b] = 0
        /\ \A r \in Requests :
              (pc[r] = "done" /\ results[r] # <<>>) =>
                  ret[r].models_used = <<"heuristic">>



(***************************************************************************)
(* core/cache.py: key derivation. A text is a sequence of characters; the   *)
(* Greek letters are written by name: "SIGMA" is U+03A3, "sigma" is U+03C3 *)
(* and "final_sigma" is U+03C2.                                            *)
(***************************************************************************)
Alphabet == {"a", "A", "b", "B", " ", "SIGMA", "sigma", "final_sigma"}

IsSpace(c) == c = " "

\* the characters that have a letter case
IsCased(c) == c # " "

\* str.lower() on one character whose lower case does not depend on its place
LowerChar(c) ==
    CASE c = "A" -> "a" [] c = "B" -> "b" [] c = "SIGMA" -> "sigma" [] OTHER -> c

\* str.lower() of a capital sigma: U+03C2 when a cased character comes before
\* it and none comes after it, U+03C3 otherwise
IsFinalSigma(text, i) ==
    /\ text[i] = "SIGMA"
    /\ i > 1 /\ IsCased(text[i - 1])
    /\ ~(i < Len(text) /\ IsCased(text[i + 1]))

\* str.lower()
Lower(text) ==
    [i \in 1..Len(text) |->
        IF IsFinalSigma(text, i) THEN "final_sigma" ELSE LowerChar(text[i])]

RECURSIVE LStrip(_)
LStrip(text) ==
    IF text # <<>> /\ IsSpace(Head(text)) THEN LStrip(Tail(text)) ELSE text

RECURSIVE RStrip(_)
RStrip(text) ==
    IF text # <<>> /\ IsSpace(text[Len(text)])
    THEN RStrip(SubSeq(text, 1, Len(text) - 1)) ELSE text

\* str.strip()
Strip(text) == LStrip(RStrip(text))

CharCode(c) == CASE c = "a" -> 1 [] c = "A" -> 2 [] c = "b" -> 3 [] c = "B" -> 4
                 [] c = " " -> 5 [] c = "SIGMA" -> 6 [] c = "sigma" -> 7
                 [] c = "final_sigma" -> 8

\* hashlib.md5(...).hexdigest()[:12], taken as free of collisions on the texts
\* of the model: the digest of a string is its numeral in base 9
RECURSIVE Md5Prefix(_)
Md5Prefix(normalized) ==
    IF normalized = <<>> THEN 0
    ELSE CharCode(Head(normalized)) + 9 * Md5Prefix(Tail(normalized))

\* CacheManager._generate_key
GenerateKey(text) == Md5Prefix(Strip(Lower(text)))

\* the request texts of the model: two spellings of one text, a text that
\* differs from them inside, and a Greek text in capitals and in small letters
CacheTexts ==
    { <<" ", "A", "b">>, <<"a", "B", " ">>, <<"a", " ", "b">>,
      <<"A", "SIGMA">>, <<"a", "sigma">> }

\* the key of each request text, computed once
KeyOf == [t \in CacheTexts |-> GenerateKey(t)]

Digests == {KeyOf[t] : t \in CacheTexts}

\* verdicts handed to set: results of predict, whose cached flag is False
CacheValues == { [prediction |-> "FAKE", cached |-> FALSE],
                 [prediction |-> "REAL", cached |-> FALSE] }

NoEntry == [present |-> FALSE, timestamp |-> 0, text_preview |-> <<>>, result |-> NoValue]

(***************************************************************************)
(* core/cache.py: expiry                                                   *)
(***************************************************************************)
IsExpiredNever(entry) == FALSE

\* CacheManager._is_expired, at the current time
IsExpired(entry) == now > entry.timestamp + TtlHours

\* the dictionary _cleanup_expired leaves behind
WithoutExpired(c) ==
    [d \in Digests |-> IF c[d].present /\ IsExpired(c[d]) THEN NoEntry ELSE c[d]]

\* get() up to its lock: the sweep it runs when hash(key) % 100 == 0, and
\* what that leaves in memory and in the file (saved only if entries went)
SweptCache(key) == IF key \in sweepKeys THEN WithoutExpired(cache) ELSE cache
SweptFile(key) ==
    IF key \in sweepKeys /\ WithoutExpired(cache) # cache
    THEN WithoutExpired(cache) ELSE file

MarkCachedNot(result) == result

\* result['cached'] = True, on the stored dictionary itself; the verdicts of
\* CacheValues are non-empty dictionaries, for which "if result:" holds
MarkCached(result) == [result EXCEPT !.cached = TRUE]

(***************************************************************************)
(* core/cache.py: the operations. _save_cache is modelled where its write   *)
(* succeeds: file is then the whole dictionary as it is in memory.         *)
(***************************************************************************)
\* the latest operation, whether clear() has run with no set() since, and
\* the get() calls completed since construction or the last clear()
Recorded(op) ==
    /\ opCount < MaxOps
    /\ opCount' = opCount + 1
    /\ lastOp' = [f \in DOMAIN NoOp |->
                    CASE f = "cleared" ->
                           (CASE op.op = "clear" -> TRUE
                              [] op.op = "set" -> FALSE
                              [] OTHER -> lastOp.cleared)
                      [] f = "gets" ->
                           (CASE op.op = "clear" -> 0
                              [] op.op = "get" -> lastOp.gets + 1
                              [] OTHER -> lastOp.gets)
                      [] OTHER -> op[f]]

CacheSetKeepsFirst(text, result) ==
    LET key == KeyOf[text] IN
    /\ cache' = IF cache[key].present THEN cache
                ELSE [cache EXCEPT ![key] =
                        [present |-> TRUE, timestamp |-> now, text_preview |-> text,
                         result |-> result]]
    /\ file' = cache'
    /\ Recorded([op |-> "set", text |-> text, value |-> result, found |-> "",
                 ret |-> NoValue, time |-> now])
    /\ UNCHANGED <<hits, misses, now, sweepKeys>>

\* CacheManager.set
CacheSet(text, result) ==
    LET key == KeyOf[text] IN
    /\ cache' = [cache EXCEPT ![key] =
                    [present |-> TRUE, timestamp |-> now, text_preview |-> text,
                     result |-> result]]
    /\ file' = cache'
    /\ Recorded([op |-> "set", text |-> text, value |-> result, found |-> "",
                 ret |-> NoValue, time |-> now])
    /\ UNCHANGED <<hits, misses, now, sweepKeys>>

CacheGetEvictionUncounted(text) ==
    LET key   == KeyOf[text]
        swept == SweptCache(key)
        entry == swept[key]
    IN
    /\ IF ~entry.present
       THEN /\ misses' = misses + 1
            /\ hits' = hits
            /\ cache' = swept
            /\ file' = SweptFile(key)
            /\ Recorded([op |-> "get", text |-> text, value |-> NoValue,
                         found |-> "absent", ret |-> NoValue, time |-> now])
       ELSE IF IsExpired(entry)
       THEN /\ misses' = misses
            /\ hits' = hits
            /\ cache' = [swept EXCEPT ![key] = NoEntry]
            /\ file' = cache'
            /\ Recorded([op |-> "get", text |-> text, value |-> NoValue,
                         found |-> "expired", ret |-> NoValue, time |-> now])
       ELSE /\ hits' = hits + 1
            /\ misses' = misses
            /\ cache' = [swept EXCEPT ![key].result = MarkCached(entry.result)]
            /\ file' = SweptFile(key)
            /\ Recorded([op |-> "get", text |-> text, value |-> NoValue,
                         found |-> "fresh", ret |-> MarkCached(entry.result),
                         time |-> now])
    /\ UNCHANGED <<now, sweepKeys>>

\* CacheManager.get
CacheGet(text) ==
    LET key   == KeyOf[text]
        swept == SweptCache(key)
        entry == swept[key]
    IN
    /\ IF ~entry.present
       THEN /\ misses' = misses + 1
            /\ hits' = hits
            /\ cache' = swept
            /\ file' = SweptFile(key)
            /\ Recorded([op |-> "get", text |-> text, value |-> NoValue,
                         found |-> "absent", ret |-> NoValue, time |-> now])
       ELSE IF IsExpired(entry)
       THEN /\ misses' = misses + 1
            /\ hits' = hits
            /\ cache' = [swept EXCEPT ![key] = NoEntry]
            /\ file' = cache'
            /\ Recorded([op |-> "get", text |-> text, value |-> NoValue,
                         found |-> "expired", ret |-> NoValue, time |-> now])
       ELSE /\ hits' = hits + 1
            /\ misses' = misses
            /\ cache' = [swept EXCEPT ![key].result = MarkCached(entry.result)]
            /\ file' = SweptFile(key)
            /\ Recorded([op |-> "get", text |-> text, value |-> NoValue,
                         found |-> "fresh", ret |-> MarkCached(entry.result),
                         time |-> now])
    /\ UNCHANGED <<now, sweepKeys>>

CacheClearCountersOnly ==
    /\ hits' = 0
    /\ misses' = 0
    /\ file' = cache
    /\ Recorded([op |-> "clear", text |-> <<>>, value |-> NoValue, found |-> "",
                 ret |-> NoValue, time |-> now])
    /\ UNCHANGED <<cache, now, sweepKeys>>

\* CacheManager.clear
CacheClear ==
    /\ cache' = [d \in Digests |-> NoEntry]
    /\ hits' = 0
    /\ misses' = 0
    /\ file' = cache'
    /\ Recorded([op |-> "clear", text |-> <<>>, value |-> NoValue, found |-> "",
                 ret |-> NoValue, time |-> now])
    /\ UNCHANGED <<now, sweepKeys>>

\* an hour passes
CacheTick ==
    /\ now < MaxHour
    /\ now' = now + 1
    /\ UNCHANGED <<cache, file, hits, misses, sweepKeys, opCount, lastOp>>

orchestratorVars == <<configVars, clockVars, adapterVars, netVars, requestVars, directVars>>

\* a fresh CacheManager; str hashes are salted per process, so which digests
\* trigger the sweep is fixed at start and unknown
InitCache ==
    /\ api_key = [b \in Backends |-> ""]
    /\ hf_lib = TRUE
    /\ thresholds = DefaultThresholds
    /\ ensemble_weights = EnsembleWeights
    /\ InitClock
    /\ InitAdapters
    /\ InitRequests
    /\ InitVerdictVars
    /\ cache = [d \in Digests |-> NoEntry]
    /\ file = [d \in Digests |-> NoEntry]
    /\ hits = 0
    /\ misses = 0
    /\ now = 0
    /\ sweepKeys \in {{}} \cup {{d} : d \in Digests}
    /\ opCount = 0
    /\ lastOp = NoOp

NextCache ==
    \/ \E text \in CacheTexts, result \in CacheValues :
          CacheSet(text, result) /\ UNCHANGED orchestratorVars
    \/ \E text \in CacheTexts : CacheGet(text) /\ UNCHANGED orchestratorVars
    \/ CacheClear /\ UNCHANGED orchestratorVars
    \/ CacheTick /\ UNCHANGED orchestratorVars

SpecCache == InitCache /\ [][NextCache]_vars

(***************************************************************************)
(* Properties of the cache                                                 *)
(***************************************************************************)
\* the step is a call of get(text)
IsGetOf(text) ==
    /\ opCount' = opCount + 1
    /\ lastOp'.op = "get"
    /\ lastOp'.text = text

\* the step is a call of set(text, _)
IsSetOf(text) ==
    /\ opCount' = opCount + 1
    /\ lastOp'.op = "set"
    /\ lastOp'.text = text

\* C7: get(T) called right after set(T, V), no later than the TTL after it, is a
\* hit and returns V with its cached flag true.
C7_Step ==
    \A text \in CacheTexts :
        (/\ lastOp.op = "set"
         /\ lastOp.text = text
         /\ IsGetOf(text)
         /\ now - lastOp.time <= TtlHours)
        => /\ lastOp'.found = "fresh"
           /\ lastOp'.ret = [lastOp.value EXCEPT !.cached = TRUE]
           /\ hits' = hits + 1

C7_RoundTrip == [][C7_Step]_vars

\* a set and then a get that returned a verdict marked as cached
C7_Witness ==
    /\ opCount = 2
    /\ lastOp.op = "get"
    /\ lastOp.found = "fresh"
    /\ lastOp.ret.cached
    /\ lastOp.ret.prediction \in Verdicts

\* two characters that are the same letter in either case, or the same character
SameLetter(x, y) ==
    \/ x = y
    \/ {x, y} = {"a", "A"}
    \/ {x, y} = {"b", "B"}
    \/ {x, y} \subseteq {"SIGMA", "sigma", "final_sigma"}

NonSpaces(text) == {i \in 1..Len(text) : ~IsSpace(text[i])}
FirstNonSpace(text) == CHOOSE i \in NonSpaces(text) : \A j \in NonSpaces(text) : i <= j
LastNonSpace(text)  == CHOOSE i \in NonSpaces(text) : \A j \in NonSpaces(text) : i >= j

\* t1 and t2 differ at most in letter case and in leading or trailing whitespace
SameUpToCaseAndEdges(t1, t2) ==
    IF NonSpaces(t1) = {} \/ NonSpaces(t2) = {}
    THEN NonSpaces(t1) = {} /\ NonSpaces(t2) = {}
    ELSE LET f1 == FirstNonSpace(t1)
             f2 == FirstNonSpace(t2)
             n1 == LastNonSpace(t1) - f1
             n2 == LastNonSpace(t2) - f2
         IN  /\ n1 = n2
             /\ \A k \in 0..n1 : SameLetter(t1[f1 + k], t2[f2 + k])

\* C8: after set(T, V), get(T') is a hit returning V for every T' that differs
\* from T only in letter case or edge whitespace; a text that differs in any
\* other character has a key of its own, whose entry a set of T leaves alone.
C8_Step ==
    \A t1 \in CacheTexts : \A t2 \in CacheTexts :
        /\ (/\ SameUpToCaseAndEdges(t1, t2)
            /\ lastOp.op = "set"
            /\ lastOp.text = t1
            /\ IsGetOf(t2)
            /\ now - lastOp.time <= TtlHours)
           => /\ lastOp'.found = "fresh"
              /\ lastOp'.ret = [lastOp.value EXCEPT !.cached = TRUE]
        /\ (~SameUpToCaseAndEdges(t1, t2) /\ IsSetOf(t1))
           => /\ KeyOf[t1] # KeyOf[t2]
              /\ cache'[KeyOf[t2]] = cache[KeyOf[t2]]

C8_KeysInsensitive == [][C8_Step]_vars

\* C9: a get on a key whose entry is older than the TTL returns None, counts as
\* a miss, removes the entry and leaves the file equal to the store without it;
\* a get of the same key right after a miss finds no entry and is a miss again.
C9_Step ==
    \A text \in CacheTexts :
        LET key == KeyOf[text] IN
        /\ (/\ IsGetOf(text)
            /\ cache[key].present
            /\ now - cache[key].timestamp > TtlHours)
           => /\ lastOp'.ret = NoValue
              /\ lastOp'.found # "fresh"
              /\ misses' = misses + 1
              /\ hits' = hits
              /\ ~cache'[key].present
              /\ file' = cache'
        /\ (/\ IsGetOf(text)
            /\ lastOp.op = "get"
            /\ KeyOf[lastOp.text] = key
            /\ lastOp.found # "fresh")
           => /\ lastOp'.found = "absent"
              /\ lastOp'.ret = NoValue
              /\ misses' = misses + 1
              /\ ~cache'[key].present

C9_ExpiredGetEvicts == [][C9_Step]_vars

\* a get that found its entry expired and evicted it
C9_Witness ==
    /\ lastOp.op = "get"
    /\ lastOp.found = "expired"
    /\ misses >= 1
    /\ ~cache[KeyOf[lastOp.text]].present
    /\ file = cache

\* the store, in memory or on file, holds no entry
NoEntries(c) == \A d \in Digests : ~c[d].present

\* the step is a call of clear()
IsClear ==
    /\ opCount' = opCount + 1
    /\ lastOp'.op = "clear"

\* C20: clear() leaves the cache with zero entries and hits = misses = 0 and
\* saves the empty store, whatever calls came before; every get after a
\* clear and before the next set is a miss, and the store stays empty until
\* that set.
C20_Cleared ==
    lastOp.cleared =>
        /\ NoEntries(cache)
        /\ NoEntries(file)
        /\ hits = 0
        /\ lastOp.op = "clear" => misses = 0
        /\ lastOp.op = "get" => (lastOp.found = "absent" /\ lastOp.ret = NoValue)

C20_Step ==
    /\ IsClear => (NoEntries(cache') /\ NoEntries(file') /\ hits' = 0 /\ misses' = 0)
    /\ \A text \in CacheTexts :
          (lastOp.cleared /\ IsGetOf(text)) =>
              (misses' = misses + 1 /\ hits' = hits /\ lastOp'.ret = NoValue)

C20_ClearEmpties == [](C20_Cleared) /\ [][C20_Step]_vars

\* a get that missed right after a clear() that was not the first operation
C20_Witness ==
    /\ lastOp.cleared
    /\ lastOp.op = "get"
    /\ opCount = MaxOps
    /\ misses = 1
    /\ hits = 0

\* the step is a call of get, of any text
IsGet ==
    /\ opCount' = opCount + 1
    /\ lastOp'.op = "get"

\* the step is a call of set, of any text
IsSet ==
    /\ opCount' = opCount + 1
    /\ lastOp'.op = "set"

\* C21: every get increments exactly one of hits and misses by one: hits when
\* it returns a stored verdict, misses when it returns None; set changes
\* neither counter; so hits + misses is the number of get calls completed
\* since construction or the last clear.
C21_Step ==
    /\ IsGet =>
          IF lastOp'.ret # NoValue
          THEN hits' = hits + 1 /\ misses' = misses
          ELSE hits' = hits /\ misses' = misses + 1
    /\ IsSet => (hits' = hits /\ misses' = misses)

C21_Counted == hits + misses = lastOp.gets

C21_HitsPlusMisses == [](C21_Counted) /\ [][C21_Step]_vars

\* a hit, a miss on an expired entry and a set have been counted
C21_Witness ==
    /\ lastOp.op = "get"
    /\ lastOp.found = "expired"
    /\ lastOp.gets = 2
    /\ hits = 1
    /\ misses = 1

\* C26 as stated: every get that returns a verdict reads an entry that is
\* valid for read: now - creation_timestamp < TTL at the time of the read,
\* the boundary now = creation_timestamp + TTL included.
C26_HitIsValidForRead ==
    (lastOp.op = "get" /\ lastOp.found = "fresh")
    => lastOp.time - cache[KeyOf[lastOp.text]].timestamp < TtlHours

\* C27 as stated: a stored verdict is immutable: get on a hit returns a copy
\* that carries the cache-hit flag and leaves the stored entry (its verdict,
\* the verdict's own cached field included, and its timestamp) unchanged.
C27_Step ==
    \A text \in CacheTexts :
        (IsGetOf(text) /\ lastOp'.found = "fresh") =>
            /\ lastOp'.ret.cached
            /\ cache'[KeyOf[text]] = cache[KeyOf[text]]

C27_StoredVerdictImmutable == [][C27_Step]_vars

\* C28 as stated: between cache operations the persisted mapping equals the
\* in-memory store: the same digests with the same timestamps and the same
\* verdict contents, after any sequence of set, get, clear and sweeps.
C28_FileEqualsStore ==
    \A d \in Digests :
        /\ file[d].present = cache[d].present
        /\ file[d].timestamp = cache[d].timestamp
        /\ file[d].result = cache[d].result

\* len(self.cache)
EntryCount(c) == Cardinality({d \in Digests : c[d].present})

\* C30: the store holds one entry per digest and later writes overwrite: a
\* set(T', V2) leaves exactly one entry under the key of T', holding V2, T'
\* and the time of this set, whatever an earlier set(T, V1) with the same key
\* had stored; the other entries are untouched and the number of entries
\* does not change when the key was already present.
C30_Step ==
    \A text \in CacheTexts :
        IsSetOf(text) =>
            LET key == GenerateKey(text) IN
            /\ cache'[key] = [present |-> TRUE, timestamp |-> now, text_preview |-> text,
                              result |-> lastOp'.value]
            /\ \A d \in Digests \ {key} : cache'[d] = cache[d]
            /\ EntryCount(cache') = IF cache[key].present THEN EntryCount(cache)
                                    ELSE EntryCount(cache) + 1
            /\ file' = cache'

C30_LaterWritesOverwrite == [][C30_Step]_vars

\* a second set under the key of "ab", an hour after the first and with
\* another text, has replaced the entry
C30_Witness ==
    /\ lastOp.op = "set"
    /\ lastOp.text = <<"a", "B", " ">>
    /\ lastOp.value.prediction = "REAL"
    /\ opCount = 2
    /\ now = 1
    /\ hits + misses = 0
    /\ ~lastOp.cleared
    /\ EntryCount(cache) = 1
    /\ cache[GenerateKey(<<" ", "A", "b">>)].timestamp = 1
    /\ cache[GenerateKey(<<" ", "A", "b">>)].result.prediction = "REAL"

(***************************************************************************)
(* core/cache.py under threads: each thread runs one cache operation at a  *)
(* time; "with self._lock" is an acquire step, the block, and a release    *)
(* step. The clock of the model moves between calls.                       *)
(***************************************************************************)
ThreadOps == {"get", "set", "clear", "stats", "get_recent_entries"}

LockedOps == {"get", "set", "clear"}

ThreadTexts == { <<"a", " ", "b">> }

ThreadValue == [prediction |-> "FAKE", cached |-> FALSE]

threadFrame == <<configVars, clockVars, adapterVars, netVars, requestVars,
                 vIn, vOut, aggIn, aggOut, call, app, heur>>

\* the threads inside get, set or clear
InLockedOp == {t \in Threads : thread[t].op \in LockedOps /\ thread[t].pc # "idle"}

\* where an operation starts: get runs the sweep first when the hash of its
\* key says so; stats and get_recent_entries take no lock
EntryPc(op, text) ==
    CASE op = "get" /\ KeyOf[text] \in sweepKeys -> "sweep_wait"
      [] op \in LockedOps -> "wait"
      [] OTHER -> "read"

\* a thread calls an operation of the cache
ThreadCall(t, op, text) ==
    /\ thread[t].pc = "idle"
    /\ op \in LockedOps => opCount + Cardinality(InLockedOp) < MaxOps
    /\ thread' = [thread EXCEPT ![t] = [pc |-> EntryPc(op, text), op |-> op, text |-> text]]
    /\ UNCHANGED <<lock, cacheVars>>
    /\ UNCHANGED threadFrame

\* "with self._lock:" is entered
Acquire(t) ==
    /\ thread[t].pc \in {"sweep_wait", "wait"}
    /\ lock = "free"
    /\ lock' = t
    /\ thread' = [thread EXCEPT ![t].pc = IF @ = "sweep_wait" THEN "sweep" ELSE "critical"]
    /\ UNCHANGED cacheVars
    /\ UNCHANGED threadFrame

\* the block of _cleanup_expired
SweepBlock(t) ==
    /\ thread[t].pc = "sweep"
    /\ cache' = WithoutExpired(cache)
    /\ file' = IF WithoutExpired(cache) # cache THEN WithoutExpired(cache) ELSE file
    /\ thread' = [thread EXCEPT ![t].pc = "sweep_exit"]
    /\ UNCHANGED <<lock, hits, misses, now, sweepKeys, opCount, lastOp>>
    /\ UNCHANGED threadFrame

\* the block of get, set or clear
CriticalBlock(t) ==
    /\ thread[t].pc = "critical"
    /\ CASE thread[t].op = "get" -> CacheGet(thread[t].text)
         [] thread[t].op = "set" -> CacheSet(thread[t].text, ThreadValue)
         [] thread[t].op = "clear" -> CacheClear
    /\ thread' = [thread EXCEPT ![t].pc = "exit"]
    /\ UNCHANGED lock
    /\ UNCHANGED threadFrame

ReleaseKeepsLockAfterSweep(t) ==
    /\ thread[t].pc \in {"sweep_exit", "exit"}
    /\ lock' = IF thread[t].pc = "sweep_exit" THEN lock ELSE "free"
    /\ thread' = [thread EXCEPT ![t] = IF @.pc = "sweep_exit" THEN [@ EXCEPT !.pc = "wait"]
                                        ELSE NoThreadCall]
    /\ UNCHANGED cacheVars
    /\ UNCHANGED threadFrame

\* the with block is left: after the sweep get goes on to its own block
Release(t) ==
    /\ thread[t].pc \in {"sweep_exit", "exit"}
    /\ lock' = "free"
    /\ thread' = [thread EXCEPT ![t] = IF @.pc = "sweep_exit" THEN [@ EXCEPT !.pc = "wait"]
                                        ELSE NoThreadCall]
    /\ UNCHANGED cacheVars
    /\ UNCHANGED threadFrame

\* stats reads self.hits, or get_recent_entries starts to iterate self.cache
ReadBegin(t) ==
    /\ thread[t].pc = "read"
    /\ thread' = [thread EXCEPT ![t].pc = "reading"]
    /\ UNCHANGED <<lock, cacheVars>>
    /\ UNCHANGED threadFrame

\* stats has read self.misses and len(self.cache), or the iteration is over
ReadEnd(t) ==
    /\ thread[t].pc = "reading"
    /\ thread' = [thread EXCEPT ![t].pc = "idle"]
    /\ UNCHANGED <<lock, cacheVars>>
    /\ UNCHANGED threadFrame

\* an hour passes between calls
ThreadTick ==
    /\ \A t \in Threads : thread[t].pc = "idle"
    /\ CacheTick
    /\ UNCHANGED <<lock, thread>>
    /\ UNCHANGED threadFrame

InitThreads ==
    /\ InitCache
    /\ sweepKeys \in {{}, {KeyOf[text] : text \in ThreadTexts}}

NextThreads ==
    \/ \E t \in Threads, op \in ThreadOps :
          \E text \in (IF op \in {"get", "set"} THEN ThreadTexts ELSE {<<>>}) :
              ThreadCall(t, op, text)
    \/ \E t \in Threads : Acquire(t)
    \/ \E t \in Threads : SweepBlock(t)
    \/ \E t \in Threads : CriticalBlock(t)
    \/ \E t \in Threads : Release(t)
    \/ \E t \in Threads : ReadBegin(t)
    \/ \E t \in Threads : ReadEnd(t)
    \/ ThreadTick

SpecThreads == InitThreads /\ [][NextThreads]_vars

\* thread t is between its first and its last access of the store or the
\* counters in the operation it runs
Touching(t) == thread[t].pc \in {"sweep", "sweep_exit", "critical", "exit", "reading"}

\* C29 as stated: every operation that touches the store or the counters
\* (get, set, clear, the sweep, stats, get_recent_entries) does so inside the
\* lock's critical section, so no two threads touch them at the same time.
C29_MutualExclusion ==
    /\ \A t \in Threads : Touching(t) => lock = t
    /\ \A t1, t2 \in Threads : (Touching(t1) /\ Touching(t2)) => t1 = t2

\* A thread inside a cache operation is scheduled again: the steps of an
\* operation are taken when they stay possible (the interpreter switches
\* threads, and a released lock is handed to a thread that waits for it).
ThreadStep(t) ==
    \/ Acquire(t)
    \/ SweepBlock(t)
    \/ CriticalBlock(t)
    \/ Release(t)
    \/ ReadBegin(t)
    \/ ReadEnd(t)

SpecThreadsFair ==
    /\ SpecThreads
    /\ \A t \in Threads : WF_vars(ThreadStep(t))

\* thread t is at "with self._lock:"
AtAcquire(t) == thread[t].pc \in {"sweep_wait", "wait"}

\* C39: no thread reaches "with self._lock" while it holds the lock (get has
\* left the sweep's block before it enters its own; _save_cache takes no
\* lock), and every call of a cache operation returns.
C39_NoDeadlock ==
    /\ [](\A t \in Threads : AtAcquire(t) => lock # t)
    /\ \A t \in Threads : (thread[t].pc # "idle") ~> (thread[t].pc = "idle")

\* a get that ran the sweep waits for the lock a second time while another
\* thread is inside clear
C39_Witness ==
    \E t, u \in Threads :
       /\ thread[t].op = "get"
       /\ thread[t].pc = "wait"
       /\ KeyOf[thread[t].text] \in sweepKeys
       /\ thread[u].op = "clear"
       /\ thread[u].pc = "critical"
       /\ lock = u

(***************************************************************************)
(* The adapters' operations called directly, one call at a time            *)
(* (app.py and pages/2_Monitoring.py read the quota and the health between *)
(* requests). The wall clock is the host's: it moves on, and it can be set *)
(* back.                                                                   *)
(***************************************************************************)
CallRecord(op, b, used, result) ==
    [NoCall EXCEPT !.n = call.n + 1, !.op = op, !.backend = b,
                   !.used_at_check = used, !.result = result]

quotaFrame == <<configVars, clockVars, netVars, requestVars, cacheVars,
                vIn, vOut, aggIn, aggOut, app, heur, lock, thread>>

\* X_client.is_available()
IsAvailableCall(b) ==
    /\ call.n < MaxCalls
    /\ usage_today' = [usage_today EXCEPT ![b] = AvailUsage(b)]
    /\ last_reset_date' = [last_reset_date EXCEPT ![b] = AvailDate(b)]
    /\ call' = CallRecord("is_available", b, AvailUsage(b),
                          IF IsAvailable(b) THEN "true" ELSE "false")
    /\ UNCHANGED <<success_count, error_count>>
    /\ UNCHANGED quotaFrame

\* X_client.get_quota_usage()
GetQuotaUsageCall(b) ==
    /\ call.n < MaxCalls
    /\ usage_today' = [usage_today EXCEPT ![b] = UsageAfterReset(b)]
    /\ last_reset_date' = [last_reset_date EXCEPT ![b] = DateAfterReset(b)]
    /\ call' = CallRecord("get_quota_usage", b, UsageAfterReset(b), "usage")
    /\ UNCHANGED <<success_count, error_count>>
    /\ UNCHANGED quotaFrame

PredictCallCountsAttempts(b) ==
    /\ call.n < MaxCalls
    /\ last_reset_date' = [last_reset_date EXCEPT ![b] = DateAfterReset(b)]
    /\ \/ /\ QuotaExceeded(b)
          /\ usage_today' = [usage_today EXCEPT ![b] = UsageAfterReset(b)]
          /\ error_count' = [error_count EXCEPT ![b] = @ + 1]
          /\ call' = CallRecord("predict", b, UsageAfterReset(b), "QuotaExceededError")
          /\ UNCHANGED success_count
       \/ /\ ~QuotaExceeded(b)
          /\ HasKey(b) /\ HasClient(b)
          /\ usage_today' = [usage_today EXCEPT ![b] = UsageAfterReset(b) + 1]
          /\ success_count' = [success_count EXCEPT ![b] = @ + 1]
          /\ call' = CallRecord("predict", b, UsageAfterReset(b), "ok")
          /\ UNCHANGED error_count
       \/ /\ ~QuotaExceeded(b)
          /\ usage_today' = [usage_today EXCEPT ![b] = UsageAfterReset(b) + 1]
          /\ error_count' = [error_count EXCEPT ![b] = @ + 1]
          /\ call' = CallRecord("predict", b, UsageAfterReset(b), "error")
          /\ UNCHANGED success_count
       \/ /\ ~QuotaExceeded(b)
          /\ usage_today' = [usage_today EXCEPT ![b] = UsageAfterReset(b)]
          /\ call' = CallRecord("predict", b, UsageAfterReset(b), "cancelled")
          /\ UNCHANGED <<success_count, error_count>>
    /\ UNCHANGED quotaFrame

\* X_client.predict(), run to its end with no other call in between: the
\* quota check, then a request the provider answers or fails, or that the
\* caller's deadline cancels (CancelledError passes "except Exception", so
\* no health counter moves); the provider can answer only a request that
\* carries a real credential
PredictCall(b) ==
    /\ call.n < MaxCalls
    /\ last_reset_date' = [last_reset_date EXCEPT ![b] = DateAfterReset(b)]
    /\ \/ /\ QuotaExceeded(b)
          /\ usage_today' = [usage_today EXCEPT ![b] = UsageAfterReset(b)]
          /\ error_count' = [error_count EXCEPT ![b] = @ + 1]
          /\ call' = CallRecord("predict", b, UsageAfterReset(b), "QuotaExceededError")
          /\ UNCHANGED success_count
       \/ /\ ~QuotaExceeded(b)
          /\ HasKey(b) /\ HasClient(b)
          /\ usage_today' = [usage_today EXCEPT ![b] = UsageAfterReset(b) + 1]
          /\ success_count' = [success_count EXCEPT ![b] = @ + 1]
          /\ call' = CallRecord("predict", b, UsageAfterReset(b), "ok")
          /\ UNCHANGED error_count
       \/ /\ ~QuotaExceeded(b)
          /\ usage_today' = [usage_today EXCEPT ![b] = UsageAfterReset(b)]
          /\ error_count' = [error_count EXCEPT ![b] = @ + 1]
          /\ call' = CallRecord("predict", b, UsageAfterReset(b), "error")
          /\ UNCHANGED success_count
       \/ /\ ~QuotaExceeded(b)
          /\ usage_today' = [usage_today EXCEPT ![b] = UsageAfterReset(b)]
          /\ call' = CallRecord("predict", b, UsageAfterReset(b), "cancelled")
          /\ UNCHANGED <<success_count, error_count>>
    /\ UNCHANGED quotaFrame

\* X_client.get_health_stats(): its "status" entry
HealthStatus(b) == IF IsAvailable(b) THEN "healthy" ELSE "unavailable"

OverallStatusAll(status) ==
    IF \A b \in Backends : status[b] = "healthy" THEN "healthy" ELSE "degraded"

\* get_system_health: overall_status from the three adapters' entries
OverallStatus(status) ==
    IF \E b \in Backends : status[b] = "healthy" THEN "healthy" ELSE "degraded"

\* ensemble.get_system_health(): get_health_stats of each adapter runs
\* is_available() and then get_quota_usage(), so each adapter's daily reset
\* has run when it returns
GetSystemHealthCall ==
    /\ call.n < MaxCalls
    /\ usage_today' = [b \in Backends |-> UsageAfterReset(b)]
    /\ last_reset_date' = [b \in Backends |-> DateAfterReset(b)]
    /\ LET status == [b \in Backends |-> HealthStatus(b)]
       IN  call' = [NoCall EXCEPT !.n = call.n + 1, !.op = "get_system_health",
                                  !.status = status,
                                  !.overall_status = OverallStatus(status),
                                  !.heuristic = "healthy"]
    /\ UNCHANGED <<success_count, error_count>>
    /\ UNCHANGED quotaFrame

\* the host's date moves on
ClockForward ==
    /\ today < MaxDay
    /\ today' = today + 1
    /\ UNCHANGED <<configVars, adapterVars, netVars, requestVars, directVars, cacheVars>>

\* the host's date is set back
ClockBack ==
    /\ today > 0
    /\ today' = today - 1
    /\ UNCHANGED <<configVars, adapterVars, netVars, requestVars, directVars, cacheVars>>

\* the configurations the adapters are exercised under: each kind of key on
\* each kind of adapter, the client library present or missing
InitQuota ==
    /\ api_key \in [Backends -> KeyChoices]
    /\ <<api_key["gemini"], api_key["groq"]>> \in
          {<<"key", "key">>, <<"", "key">>, <<"placeholder", "">>}
    /\ hf_lib \in BOOLEAN
    /\ ~hf_lib => api_key["huggingface"] = "key"
    /\ thresholds = DefaultThresholds
    /\ ensemble_weights = EnsembleWeights
    /\ InitClock
    /\ InitAdapters
    /\ InitRequests
    /\ InitVerdictVars
    /\ InitCacheVars

NextQuota ==
    \/ \E b \in Backends : IsAvailableCall(b)
    \/ \E b \in Backends : GetQuotaUsageCall(b)
    \/ \E b \in Backends : PredictCall(b)
    \/ GetSystemHealthCall
    \/ ClockForward
    \/ ClockBack

SpecQuota == InitQuota /\ [][NextQuota]_vars

\* the step is a call of operation op on adapter b
IsCallOf(op, b) ==
    /\ call'.n = call.n + 1
    /\ call'.op = op
    /\ call'.backend = b

\* what _check_quota_reset has to do in a step that runs it on adapter b
ResetEffect(op, b) ==
    /\ IF today > last_reset_date[b]
       THEN /\ call'.used_at_check = 0
            /\ last_reset_date'[b] = today
       ELSE /\ call'.used_at_check = usage_today[b]
            /\ last_reset_date'[b] = last_reset_date[b]
    /\ IF op = "predict" /\ call'.result = "ok"
       THEN usage_today'[b] = call'.used_at_check + 1
       ELSE usage_today'[b] = call'.used_at_check

\* C14 as stated: every is_available, get_quota_usage and predict that runs on
\* a date later than the stored reset date zeroes usage_today and stores today
\* before the quota is evaluated; on any other date both are left as they
\* are; the stored reset date never decreases.
C14_ResetStepAnyCall ==
    \A b \in Backends :
        /\ \A op \in {"is_available", "get_quota_usage", "predict"} :
              IsCallOf(op, b) => ResetEffect(op, b)
        /\ last_reset_date'[b] >= last_reset_date[b]

C14_ResetOnEveryOperation == [][C14_ResetStepAnyCall]_vars

\* C14 amended: the same for get_quota_usage, for predict, and for an
\* is_available that gets past its early return (a credential is set and,
\* for the sentiment adapter, the client exists); an is_available that
\* returns early leaves usage_today and the reset date as they are.
C14_ResetStep ==
    \A b \in Backends :
        /\ \A op \in {"get_quota_usage", "predict"} :
              IsCallOf(op, b) => ResetEffect(op, b)
        /\ IsCallOf("is_available", b) =>
              IF HasClient(b)
              THEN ResetEffect("is_available", b)
              ELSE /\ usage_today'[b] = usage_today[b]
                   /\ last_reset_date'[b] = last_reset_date[b]
                   /\ call'.result = "false"
        /\ last_reset_date'[b] >= last_reset_date[b]

C14_DailyReset == [][C14_ResetStep]_vars

\* an adapter used on day 0 was asked on day 1 and its counter is back at 0
C14_Witness ==
    \E b \in Backends :
        /\ call.op = "is_available"
        /\ call.backend = b
        /\ call.result = "true"
        /\ success_count[b] = DailyQuota
        /\ today = 1
        /\ last_reset_date[b] = 1
        /\ usage_today[b] = 0

\* get_system_health has just returned
HealthReported == call.op = "get_system_health"

\* C19 as stated: get_system_health reports overall_status "healthy" if and
\* only if at least one of the three remote backends reports healthy, that is
\* has a credential and has not exhausted its quota; otherwise "degraded";
\* the heuristic entry is always healthy.
C19_HealthyIffCredentialAndQuota ==
    HealthReported =>
        /\ \A b \in Backends :
              call.status[b] = "healthy" <=> (api_key[b] # "" /\ usage_today[b] < DailyQuota)
        /\ call.overall_status = "healthy" <=> \E b \in Backends : call.status[b] = "healthy"
        /\ call.overall_status \in {"healthy", "degraded"}
        /\ call.heuristic = "healthy"

\* C19 amended: a remote backend reports healthy if and only if its
\* is_available() holds: it has a credential, the sentiment backend also has
\* its client library, and its quota (after the daily reset) is not
\* exhausted; otherwise it reports unavailable. overall_status is "healthy"
\* if and only if at least one of the three reports healthy, otherwise
\* "degraded"; the heuristic entry is always healthy.
C19_HealthyIffAvailable ==
    HealthReported =>
        /\ \A b \in Backends :
              /\ call.status[b] \in {"healthy", "unavailable"}
              /\ call.status[b] = "healthy" <=>
                    /\ api_key[b] # ""
                    /\ (b = "huggingface" => hf_lib)
                    /\ usage_today[b] < DailyQuota
        /\ call.overall_status = "healthy" <=> \E b \in Backends : call.status[b] = "healthy"
        /\ call.overall_status = "degraded" <=> \A b \in Backends : call.status[b] # "healthy"
        /\ call.heuristic = "healthy"

\* the system is healthy through one backend alone, next to a backend that
\* has a credential and has used up its quota
C19_Witness ==
    /\ HealthReported
    /\ call.overall_status = "healthy"
    /\ Cardinality({b \in Backends : call.status[b] = "healthy"}) = 1
    /\ \E b \in Backends :
          /\ api_key[b] # ""
          /\ usage_today[b] = DailyQuota
          /\ call.status[b] = "unavailable"

\* the step is a predict call on adapter b that ended in failure
IsFailedPredict(b) ==
    /\ IsCallOf("predict", b)
    /\ call'.result \in {"QuotaExceededError", "error", "cancelled"}

\* the step is a predict call on adapter b that returned a result
IsSuccessfulPredict(b) ==
    /\ IsCallOf("predict", b)
    /\ call'.result = "ok"

\* C23 as stated: every predict call that ends in failure leaves usage_today
\* and the reset date unchanged, a successful predict increments usage_today
\* by exactly 1, and nothing else increments usage_today.
C23_StepAsStated ==
    \A b \in Backends :
        /\ IsFailedPredict(b) =>
              /\ usage_today'[b] = usage_today[b]
              /\ last_reset_date'[b] = last_reset_date[b]
        /\ IsSuccessfulPredict(b) => usage_today'[b] = usage_today[b] + 1
        /\ usage_today'[b] > usage_today[b] => IsSuccessfulPredict(b)

C23_FailureLeavesUsage == [][C23_StepAsStated]_vars

\* C23 amended: every predict call first runs the daily reset; one that ends
\* in failure leaves usage_today and the reset date as the reset left them
\* (unchanged unless the date is later than the stored reset date), a
\* successful one leaves usage_today at the value after the reset plus
\* exactly 1, and nothing else increments usage_today.
C23_Step ==
    \A b \in Backends :
        /\ IsFailedPredict(b) =>
              /\ usage_today'[b] = (IF today > last_reset_date[b] THEN 0 ELSE usage_today[b])
              /\ last_reset_date'[b] = (IF today > last_reset_date[b] THEN today
                                        ELSE last_reset_date[b])
        /\ IsSuccessfulPredict(b) =>
              /\ usage_today'[b] = (IF today > last_reset_date[b] THEN 1 ELSE usage_today[b] + 1)
              /\ last_reset_date'[b] = (IF today > last_reset_date[b] THEN today
                                        ELSE last_reset_date[b])
        /\ usage_today'[b] > usage_today[b] => IsSuccessfulPredict(b)

C23_UsageCountsSuccesses == [][C23_Step]_vars

\* a predict call failed on the day after the adapter's one success: the
\* reset ran, nothing was added
C23_Witness ==
    \E b \in Backends :
        /\ call.op = "predict"
        /\ call.backend = b
        /\ call.result \in {"error", "cancelled"}
        /\ success_count[b] = 1
        /\ today = 1
        /\ last_reset_date[b] = 1
        /\ usage_today[b] = 0

(***************************************************************************)
(* One adapter's predict() followed through its network attempts: the      *)
(* request goes out, the provider answers, and tenacity decides whether    *)
(* _make_request runs again.                                               *)
(***************************************************************************)
\* what a network attempt can end in: an HTTP status, a 200 whose body is no
\* JSON document, a 400 whose body mentions "quota", a connection error, the
\* adapter's own timeout
Responses(b) ==
    IF b = "huggingface" THEN {"200", "error", "timeout"}
    ELSE {"200", "200_invalid_json", "429", "400_quota", "400", "500",
          "connection_error", "timeout"}

\* the exception _make_request raises on a response other than 200
RaisedFor(b, response) ==
    CASE response = "timeout" -> "TimeoutError"
      [] b = "huggingface" -> "RuntimeError"
      [] response = "200_invalid_json" -> "JSONDecodeError"
      [] response = "429" -> "QuotaExceededError"
      [] response = "400_quota" /\ b = "gemini" -> "QuotaExceededError"
      [] OTHER -> "ClientError"

RetriesOnAnyException(b, exc) == b # "huggingface"

\* retry_if_exception_type((aiohttp.ClientError, asyncio.TimeoutError)) on
\* _make_request of the two LLM adapters; the sentiment adapter has no retry
Retries(b, exc) == b # "huggingface" /\ exc \in {"ClientError", "TimeoutError"}

\* the fields of the JSON object of an LLM's answer: numbers below 0, in
\* [0,1] and above 1, NaN, a string, no field
LlmFields ==
    { Field("number", -5000), Field("number", 12000), Field("nan", 0),
      Field("text", 0), NoField }

\* the answers of a 200 response of an LLM provider
LlmBodies ==
    { LlmPayload(form, NoField, NoField) : form \in LlmForms \ {"json", "json_in_text"} }
    \cup { LlmPayload("json", p, c) : p \in LlmFields, c \in LlmFields }
    \cup { LlmPayload("json_in_text", Field("number", 3333), Field("number", 3333)) }

\* class scores below 0, in [0,1] and above 1
HfScores == {-2000, 9000, 15000}

\* the answers of the sentiment provider
HfBodies ==
    { HfPayload("scores", n, u, p) : n \in HfScores, u \in HfScores, p \in HfScores }
    \cup { HfPayload("unreadable", 0, 0, 0) }

Bodies(b) == IF b = "huggingface" THEN HfBodies ELSE LlmBodies

\* predict() up to its first await
RequestBegin(b) ==
    /\ call.result # "in_flight"
    /\ call.n < MaxCalls
    /\ HasKey(b) /\ HasClient(b)
    /\ usage_today' = [usage_today EXCEPT ![b] = UsageAfterReset(b)]
    /\ last_reset_date' = [last_reset_date EXCEPT ![b] = DateAfterReset(b)]
    /\ IF QuotaExceeded(b)
       THEN /\ error_count' = [error_count EXCEPT ![b] = @ + 1]
            /\ call' = CallRecord("predict", b, UsageAfterReset(b), "QuotaExceededError")
       ELSE /\ error_count' = error_count
            /\ call' = [CallRecord("predict", b, UsageAfterReset(b), "in_flight")
                           EXCEPT !.attempts = 1]
    /\ UNCHANGED success_count
    /\ UNCHANGED quotaFrame

\* the attempt in flight ends: a result parsed from the answer, another
\* attempt, or the exception leaves predict() (counted in error_count)
Respond(b, response) ==
    /\ call.result = "in_flight"
    /\ call.backend = b
    /\ response \in Responses(b)
    /\ IF response = "200"
       THEN /\ usage_today' = [usage_today EXCEPT ![b] = @ + 1]
            /\ success_count' = [success_count EXCEPT ![b] = @ + 1]
            /\ \E payload \in Bodies(b) :
                  call' = [call EXCEPT !.result = "ok", !.response = response,
                                       !.payload = payload,
                                       !.out = ParseResponse(b, payload)]
            /\ UNCHANGED error_count
       ELSE IF Retries(b, RaisedFor(b, response)) /\ call.attempts < MaxAttempts
       THEN /\ call' = [call EXCEPT !.attempts = @ + 1, !.response = response]
            /\ UNCHANGED <<usage_today, success_count, error_count>>
       ELSE /\ error_count' = [error_count EXCEPT ![b] = @ + 1]
            /\ call' = [call EXCEPT !.result = RaisedFor(b, response),
                                    !.response = response]
            /\ UNCHANGED <<usage_today, success_count>>
    /\ UNCHANGED last_reset_date
    /\ UNCHANGED quotaFrame

InitRetry ==
    /\ api_key = [b \in Backends |-> "key"]
    /\ hf_lib = TRUE
    /\ thresholds = DefaultThresholds
    /\ ensemble_weights = EnsembleWeights
    /\ InitClock
    /\ InitAdapters
    /\ InitRequests
    /\ InitVerdictVars
    /\ InitCacheVars

NextRetry ==
    \/ \E b \in Backends : RequestBegin(b)
    \/ \E b \in Backends : \E response \in Responses(b) : Respond(b, response)
    \/ ClockForward

SpecRetry == InitRetry /\ [][NextRetry]_vars

\* the step is the provider's answer to an attempt of adapter b
IsResponse(b, responses) ==
    /\ call.result = "in_flight"
    /\ call.backend = b
    /\ call'.n = call.n
    /\ call'.response \in responses
    /\ call' # call

\* the provider's answers that are quota or rate-limit answers to adapter b
QuotaResponses(b) == IF b = "gemini" THEN {"429", "400_quota"} ELSE {"429"}

\* C24: a provider-side quota or rate-limit response (HTTP 429, or for the
\* primary LLM an HTTP 400 mentioning quota) is not retried: no further
\* attempt follows it and predict fails with QuotaExceededError; when it
\* answers the first attempt the call has made exactly one attempt.
C24_Step ==
    \A b \in {"gemini", "groq"} :
        IsResponse(b, QuotaResponses(b)) =>
            /\ call'.attempts = call.attempts
            /\ call'.result = "QuotaExceededError"
            /\ error_count'[b] = error_count[b] + 1
            /\ usage_today'[b] = usage_today[b]

C24_Ended ==
    (call.result = "QuotaExceededError" /\ call.response \in {"429", "400_quota"})
    => call.attempts \in 1..MaxAttempts

C25_Step ==
    \A b \in {"gemini", "groq"} :
        IsResponse(b, {"400"}) =>
            /\ call'.attempts = call.attempts
            /\ call'.result = "ClientError"
            /\ error_count'[b] = error_count[b] + 1

C25_BadRequestNotRetried == [][C25_Step]_vars

\* the call is a predict of adapter b that has returned a result
Returned(b) ==
    /\ call.op = "predict"
    /\ call.backend = b
    /\ call.result = "ok"

\* C34: every remote adapter clamps its parsed output: whatever the
\* provider's payload (class scores or JSON numbers outside [0,1] included),
\* the fake_probability and the confidence of the result predict returns lie
\* in [0,1], for the sentiment adapter and for both LLM adapters.
C34_OutputInUnitInterval ==
    \A b \in Backends :
        Returned(b) => /\ call.out.fake_probability \in 0..Unit
                       /\ call.out.confidence \in 0..Unit

\* an answer of an LLM provider that holds no readable verdict
Malformed(payload) ==
    \/ payload.form \notin {"json", "json_in_text"}
    \/ "text" \in {payload.fake_probability.kind, payload.confidence.kind}

\* C35: when an LLM provider answers 200 and its payload is malformed or
\* unparsable, predict does not fail: it returns fake_probability 0.5 and
\* confidence 0.5 and the call is counted as a success (the orchestrator
\* appends every returned result to its list).
C35_Step ==
    \A b \in {"gemini", "groq"} :
        /\ IsResponse(b, {"200"}) /\ Malformed(call'.payload)
           => /\ call'.result = "ok"
              /\ call'.out = LlmDefaultResult
              /\ success_count'[b] = success_count[b] + 1
              /\ error_count'[b] = error_count[b]
        /\ IsResponse(b, {"200_invalid_json"})
           => /\ call'.result = "ok"
              /\ call'.out = LlmDefaultResult
              /\ success_count'[b] = success_count[b] + 1
              /\ error_count'[b] = error_count[b]

C35_MalformedGivesDefault == [][C35_Step]_vars

(***************************************************************************)
(* app.py: the handler of the "Analyze Article" button. A click looks the  *)
(* text up in the cache; on a miss it runs predict to its end and stores   *)
(* the verdict.                                                            *)
(***************************************************************************)
\* the texts typed into the page
AppTexts == { <<" ", "A", "b">>, <<"a", "B", " ">>, <<"a", " ", "b">> }

ServedFromCacheNever(cached_result) == FALSE

\* "if cached_result:" on what CacheManager.get returned
ServedFromCache(cached_result) == cached_result # NoValue

\* the verdict as the cache keeps it
CachedVerdict(verdict) == [prediction |-> verdict.prediction, cached |-> FALSE]

appFrame == <<configVars, clockVars, adapterVars, netVars, vIn, vOut, aggIn, aggOut, call, heur,
              lock, thread>>

\* the click, up to the end of the cache branch
AppLookup(text) ==
    /\ app.pc = "idle"
    /\ app.n < MaxRequests
    /\ CacheGet(text)
    /\ app' = IF ServedFromCache(lastOp'.ret)
              THEN [pc |-> "idle", text |-> text, n |-> app.n + 1,
                    result |-> [lastOp'.ret EXCEPT !.cached = TRUE]]
              ELSE [pc |-> "predict", text |-> text, n |-> app.n + 1,
                    result |-> NoValue]
    /\ UNCHANGED requestVars
    /\ UNCHANGED appFrame

\* asyncio.run(ensemble.predict(article_text)) begins
AppPredict ==
    /\ app.pc = "predict"
    /\ StartEffect("r1")
    /\ app' = [app EXCEPT !.pc = "await"]
    /\ UNCHANGED <<vIn, vOut, aggIn, aggOut, call, heur, lock, thread, cacheVars>>

AppStoreSkipsFallback ==
    /\ app.pc = "await"
    /\ pc["r1"] = "done"
    /\ IF ret["r1"].status = "returned" /\ ret["r1"] # CreateFallbackResult
       THEN /\ CacheSet(app.text, CachedVerdict(ret["r1"]))
            /\ app' = [app EXCEPT !.pc = "idle", !.result = CachedVerdict(ret["r1"])]
       ELSE /\ app' = [app EXCEPT !.pc = "idle", !.result = CachedVerdict(ret["r1"])]
            /\ UNCHANGED cacheVars
    /\ UNCHANGED requestVars
    /\ UNCHANGED appFrame

\* predict has returned: result['cached'] = False, cache_manager.set(...)
AppStore ==
    /\ app.pc = "await"
    /\ pc["r1"] = "done"
    /\ IF ret["r1"].status = "returned"
       THEN /\ CacheSet(app.text, CachedVerdict(ret["r1"]))
            /\ app' = [app EXCEPT !.pc = "idle", !.result = CachedVerdict(ret["r1"])]
       ELSE /\ app' = [app EXCEPT !.pc = "idle"]
            /\ UNCHANGED cacheVars
    /\ UNCHANGED requestVars
    /\ UNCHANGED appFrame

\* an hour passes. The cache reads the clock only inside get and set, so an
\* hour that passes while predict runs is one that passes just before it
AppTick ==
    /\ app.pc \in {"idle", "predict"}
    /\ CacheTick
    /\ UNCHANGED orchestratorVars

\* a session configured with the primary LLM's credential only, or with the
\* sentiment backend's and the secondary LLM's
InitApp ==
    /\ api_key \in {[b \in Backends |-> IF b = "gemini" THEN "key" ELSE ""],
                    [b \in Backends |-> IF b = "gemini" THEN "" ELSE "key"]}
    /\ hf_lib = TRUE
    /\ thresholds = DefaultThresholds
    /\ ensemble_weights = EnsembleWeights
    /\ InitClock
    /\ InitAdapters
    /\ InitRequests
    /\ InitVerdictVars
    /\ cache = [d \in Digests |-> NoEntry]
    /\ file = [d \in Digests |-> NoEntry]
    /\ hits = 0
    /\ misses = 0
    /\ now = 0
    /\ sweepKeys = {}
    /\ opCount = 0
    /\ lastOp = NoOp

NextApp ==
    \/ \E text \in AppTexts : AppLookup(text)
    \/ AppPredict
    \/ \E b \in Backends : Check("r1", b)
    \/ \E b \in Backends : PredictBegin("r1", b)
    \/ \E b \in Backends : NetSuccess("r1", b)
    \/ \E b \in Backends : NetQuota("r1", b)
    \/ \E b \in Backends : NetFailure("r1", b)
    \/ \E b \in Backends : OuterTimeout("r1", b)
    \/ Aggregate("r1")
    \/ AppStore
    \/ AppTick

SpecApp == InitApp /\ [][NextApp]_vars

\* the step is a click whose cache lookup is a hit
IsHitRequest ==
    /\ app'.n = app.n + 1
    /\ opCount' = opCount + 1
    /\ lastOp'.op = "get"
    /\ lastOp'.found = "fresh"

\* C16: a request whose cache lookup is a hit is served from the cache and
\* invokes no backend: predict is not started (so the heuristic does not run),
\* no network call is made, and every adapter's usage_today, success_count and
\* error_count are as they were.
C16_HitStep ==
    IsHitRequest
    => /\ app'.pc = "idle"
       /\ app'.result.prediction \in Verdicts
       /\ app'.result.cached
       /\ started' = started
       /\ pc' = pc
       /\ results' = results
       /\ netCalls' = netCalls
       /\ usage_today' = usage_today
       /\ success_count' = success_count
       /\ error_count' = error_count

C16_HitInvokesNoBackend == [][C16_HitStep]_vars

\* a second request served from the cache after the first one was predicted
\* by the backends
C16_Witness ==
    /\ app.n = 2
    /\ app.pc = "idle"
    /\ app.result.cached
    /\ lastOp.found = "fresh"
    /\ started = 1
    /\ \E b \in Backends : success_count[b] = 1

\* the step ends a fresh analysis: predict has returned to the handler
IsStoreStep ==
    /\ app.pc = "await"
    /\ app'.pc = "idle"

\* the step is a click on a text whose key is that of the verdict the
\* handler has just stored, no later than TtlHours after it
IsFollowUpClick ==
    /\ app'.n = app.n + 1
    /\ lastOp.op = "set"
    /\ KeyOf[app'.text] = KeyOf[lastOp.text]
    /\ now - lastOp.time < TtlHours

\* C38: the handler stores the verdict of every fresh analysis, whatever
\* backends contributed to it and the total-failure fallback included, under
\* the key of the request's text before the request ends; a click that
\* follows with a text of the same key within the TTL is a hit that returns
\* that verdict and starts no predict and no network call.
C38_Step ==
    /\ IsStoreStep
       => /\ ret["r1"].status = "returned"
          /\ cache'[KeyOf[app.text]].present
          /\ cache'[KeyOf[app.text]].timestamp = now
          /\ cache'[KeyOf[app.text]].result.prediction = ret["r1"].prediction
          /\ app'.result.prediction = ret["r1"].prediction
          /\ ~app'.result.cached
    /\ IsFollowUpClick
       => /\ lastOp'.found = "fresh"
          /\ app'.pc = "idle"
          /\ app'.result.prediction = lastOp.value.prediction
          /\ app'.result.cached
          /\ started' = started
          /\ pc' = pc
          /\ netCalls' = netCalls
          /\ usage_today' = usage_today

C38_FreshVerdictIsCached == [][C38_Step]_vars

\* the total-failure fallback verdict, stored by the first click and served
\* to a second click that spells the text differently
C38_Witness ==
    /\ app.n = 2
    /\ app.pc = "idle"
    /\ app.result.cached
    /\ app.result.prediction = CreateFallbackResult.prediction
    /\ started = 1
    /\ ret["r1"] = CreateFallbackResult
    /\ lastOp.found = "fresh"
    /\ app.text # cache[KeyOf[app.text]].text_preview

(***************************************************************************)
(* core/heuristic.py: the rule engine. A text is a sequence of tokens: a    *)
(* word, a punctuation mark or a space; in every text of the model two     *)
(* words are separated by a space or a punctuation mark. Scores are in     *)
(* units of 1/Unit; processing_time is in units of 0.1 ms.                 *)
(***************************************************************************)
HeuristicTexts ==
    { <<>>, <<" ">>, <<" ", " ">>,
      <<"report">>, <<"shocking">>,
      <<"shocking", " ", "urgent">>, <<"urgent", " ", "shocking">>,
      <<"breaking", " ", "report">>, <<"WOW", "!", "!">>, <<"report", "?">>,
      <<"WOW", " ", "report">>, <<" ", "shocking", "!", " ">> }

\* time.time() - start_time, rounded to four decimals
ElapsedChoices == {0, 1, 2}

IsWordToken(t) == t \in {"report", "shocking", "urgent", "breaking", "WOW"}

\* str.lower() on a token
LowerToken(t) == IF t = "WOW" THEN "wow" ELSE t

\* len() of a token
TokenLen(t) ==
    CASE t = "report" -> 6 [] t = "shocking" -> 8 [] t = "urgent" -> 6
      [] t = "breaking" -> 8 [] t = "WOW" -> 3 [] OTHER -> 1

\* c.isupper() letters of a token
TokenUpper(t) == IF t = "WOW" THEN 3 ELSE 0

\* letters of a token
TokenLetters(t) == IF IsWordToken(t) THEN TokenLen(t) ELSE 0

\* len(text)
RECURSIVE CharCount(_)
CharCount(text) ==
    IF text = <<>> THEN 0 ELSE TokenLen(Head(text)) + CharCount(Tail(text))

\* sum(1 for c in text if c.isalpha())
RECURSIVE LetterCount(_)
LetterCount(text) ==
    IF text = <<>> THEN 0 ELSE TokenLetters(Head(text)) + LetterCount(Tail(text))

\* sum(1 for c in text if c.isupper())
RECURSIVE UpperCount(_)
UpperCount(text) ==
    IF text = <<>> THEN 0 ELSE TokenUpper(Head(text)) + UpperCount(Tail(text))

\* EMOTIONAL_WORDS, as far as the words of the model go
EmotionalWords == {"shocking", "urgent"}

\* An indicator's description is the tuple of the numbers its sentence quotes.
\* HeuristicAnalyzer._get_severity
GetSeverity(score) ==
    IF score >= 7000 THEN "HIGH" ELSE IF score >= 4000 THEN "MEDIUM" ELSE "LOW"

\* list(matches)[:5]: the iteration order of a set of strings follows the
\* process's hash seed
MatchList(matches, seed) ==
    IF matches = {"shocking", "urgent"}
    THEN (IF seed = 0 THEN <<"shocking", "urgent">> ELSE <<"urgent", "shocking">>)
    ELSE IF matches = {} THEN <<>>
    ELSE <<CHOOSE w \in matches : TRUE>>

\* HeuristicAnalyzer._analyze_emotional_language
AnalyzeEmotionalLanguage(text_lower, seed) ==
    LET words   == {text_lower[i] : i \in {j \in 1..Len(text_lower) : IsWordToken(text_lower[j])
                                                                  \/ text_lower[j] = "wow"}}
        matches == words \cap EmotionalWords
        score   == IF words = {} THEN 0
                   ELSE Min(RoundDiv(Cardinality(matches) * 33 * Unit, Cardinality(words)), Unit)
    IN  [name |-> "Emotional Language", score |-> score, severity |-> GetSeverity(score),
         description |-> <<Cardinality(matches)>>, matches |-> MatchList(matches, seed)]

\* HeuristicAnalyzer._analyze_clickbait_patterns: of CLICKBAIT_PATTERNS only
\* "breaking:?\s+" matches a text of the model
AnalyzeClickbaitPatterns(text_lower) ==
    LET found == Cardinality({i \in 1..Len(text_lower) - 1 :
                                 text_lower[i] = "breaking" /\ text_lower[i + 1] = " "})
        score == CASE found = 0 -> 0 [] found = 1 -> 4000 [] found = 2 -> 7000
                   [] OTHER -> Unit
    IN  [name |-> "Clickbait Patterns", score |-> score, severity |-> GetSeverity(score),
         description |-> <<found>>, matches |-> [i \in 1..found |-> "breaking "]]

IsEmphatic(t) == t \in {"!", "?"}

\* len(re.findall(r'[!?]{2,}', text)): the runs of two or more marks
RepeatedRuns(text) ==
    Cardinality({i \in 1..Len(text) - 1 :
                    /\ IsEmphatic(text[i]) /\ IsEmphatic(text[i + 1])
                    /\ (i = 1 \/ ~IsEmphatic(text[i - 1]))})

\* HeuristicAnalyzer._analyze_excessive_punctuation, in exact fractions
AnalyzeExcessivePunctuation(text) ==
    LET total_chars == CharCount(text)
        exclamation == Cardinality({i \in 1..Len(text) : text[i] = "!"})
        question    == Cardinality({i \in 1..Len(text) : text[i] = "?"})
        emphatic    == exclamation + question
        repeated    == RepeatedRuns(text)
        base == IF total_chars = 0 THEN Frac(0, 1)
                ELSE IF 100 * emphatic > 5 * total_chars THEN Frac(1, 1)
                ELSE IF 100 * emphatic > 2 * total_chars
                     THEN Frac(total_chars + 100 * emphatic, 6 * total_chars)
                ELSE Frac(25 * emphatic, total_chars)
        score == IF total_chars = 0 THEN 0
                 ELSE Min(RoundDiv((10 * base.n + repeated * base.d) * Unit, 10 * base.d), Unit)
    IN  [name |-> "Excessive Punctuation", score |-> score,
         severity |-> IF total_chars = 0 THEN "LOW" ELSE GetSeverity(score),
         description |-> <<exclamation, question, emphatic, total_chars>>,
         matches |-> IF emphatic > 0 THEN <<exclamation, question>> ELSE <<>>]

\* HeuristicAnalyzer._analyze_caps_ratio, in exact fractions
AnalyzeCapsRatio(text) ==
    LET total_letters == LetterCount(text)
        uppercase     == UpperCount(text)
        caps_words    == SelectSeq(text, LAMBDA t : t = "WOW")
        score == IF total_letters = 0 THEN 0
                 ELSE IF 10 * uppercase > 5 * total_letters THEN Unit
                 ELSE IF 10 * uppercase > 3 * total_letters
                      THEN RoundDiv((10 * uppercase - total_letters) * Unit, 4 * total_letters)
                 ELSE RoundDiv(5 * uppercase * Unit, 3 * total_letters)
    IN  [name |-> "ALL CAPS Usage", score |-> score,
         severity |-> IF total_letters = 0 THEN "LOW" ELSE GetSeverity(score),
         description |-> <<uppercase, total_letters, Len(caps_words)>>,
         matches |-> caps_words]

Abs(x) == IF x < 0 THEN -x ELSE x

\* HeuristicAnalyzer._empty_result
EmptyResult(processing_time) ==
    [NoHeuristicResult EXCEPT !.model_name = "heuristic",
                              !.processing_time = processing_time]

\* analyze() past its test for an empty text
FullAnalysis(text, elapsed, seed) ==
    LET text_lower    == [i \in 1..Len(text) |-> LowerToken(text[i])]
        text_stripped == Strip(text)
        emotional     == AnalyzeEmotionalLanguage(text_lower, seed)
        clickbait     == AnalyzeClickbaitPatterns(text_lower)
        punctuation   == AnalyzeExcessivePunctuation(text_stripped)
        caps          == AnalyzeCapsRatio(text_stripped)
        extremity     == Abs(emotional.score - 5000) + Abs(clickbait.score - 5000)
                           + Abs(punctuation.score - 5000) + Abs(caps.score - 5000)
    IN  [model_name |-> "heuristic",
         fake_probability |-> RoundDiv(25 * emotional.score + 35 * clickbait.score
                                         + 20 * punctuation.score + 20 * caps.score, 100),
         confidence |-> Min(5000 + RoundDiv(extremity, 4), 8500),
         processing_time |-> elapsed,
         indicators |-> [emotional_language |-> emotional.score,
                         clickbait_patterns |-> clickbait.score,
                         excessive_punctuation |-> punctuation.score,
                         caps_ratio |-> caps.score],
         indicator_details |-> <<emotional, clickbait, punctuation, caps>>]

\* "not text or not text.strip()"
IsBlank(text) == text = <<>> \/ Strip(text) = <<>>

AnalyzeNoEmptyCheck(text, elapsed, seed) == FullAnalysis(text, elapsed, seed)

AnalyzeTimed(text, elapsed, seed) ==
    IF IsBlank(text) THEN EmptyResult(elapsed)
    ELSE FullAnalysis(text, elapsed, (seed + elapsed) % 2)

\* HeuristicAnalyzer.analyze
Analyze(text, elapsed, seed) ==
    IF IsBlank(text) THEN EmptyResult(elapsed) ELSE FullAnalysis(text, elapsed, seed)

\* a caller runs analyze(text); it takes some time
AnalyzeCall ==
    /\ heur.n < MaxCalls
    /\ \E text \in HeuristicTexts, elapsed \in ElapsedChoices :
          heur' = [n |-> heur.n + 1, seed |-> heur.seed, text |-> text,
                   out |-> Analyze(text, elapsed, heur.seed),
                   prev_text |-> heur.text, prev_out |-> heur.out]
    /\ UNCHANGED <<vIn, vOut, aggIn, aggOut, call, app, lock, thread>>
    /\ UNCHANGED <<configVars, clockVars, adapterVars, netVars, requestVars, cacheVars>>

InitHeuristic ==
    /\ api_key = [b \in Backends |-> ""]
    /\ hf_lib = TRUE
    /\ thresholds = DefaultThresholds
    /\ ensemble_weights = EnsembleWeights
    /\ InitClock
    /\ InitAdapters
    /\ InitRequests
    /\ vIn = [p |-> 0, c |-> 0]
    /\ vOut = "none"
    /\ aggIn = <<>>
    /\ aggOut = NoReturn
    /\ call = NoCall
    /\ app = NoRequest
    /\ heur \in {[NoAnalysis EXCEPT !.seed = sd] : sd \in {0, 1}}
    /\ lock = "free"
    /\ thread = [t \in Threads |-> NoThreadCall]
    /\ InitCacheVars

NextHeuristic == AnalyzeCall

SpecHeuristic == InitHeuristic /\ [][NextHeuristic]_vars

\* the latest two calls of analyze had the same input
SameInputTwice == heur.n >= 2 /\ heur.prev_text = heur.text

C18_BlankGivesZero ==
    (heur.n >= 1 /\ (heur.text = <<>> \/ \A i \in 1..Len(heur.text) : heur.text[i] = " "))
    => /\ heur.out.model_name = "heuristic"
       /\ heur.out.fake_probability = 0
       /\ heur.out.confidence = 0
       /\ \A k \in DOMAIN heur.out.indicators : heur.out.indicators[k] = 0
       /\ heur.out.indicator_details = <<>>

\* analyze has returned for a text of two spaces
C18_Witness ==
    /\ heur.n >= 1
    /\ heur.text = <<" ", " ">>
    /\ heur.out.model_name = "heuristic"
    /\ heur.out.confidence = 0

====
